---- MODULE Spec2Model ----
(***************************************************************************)
(* Model of the pre-deploy audit hook (src/hooks/pre-deploy-check.py).     *)
(*                                                                         *)
(* Text is modelled as a sequence of atoms: an atom is a run of characters *)
(* that no operation of the hook ever splits (a rule id, a queue name, a   *)
(* path segment, a separator such as ":" or "#").  The empty string is the *)
(* empty sequence.                                                         *)
(***************************************************************************)
EXTENDS Integers, Sequences, FiniteSets, TLC

VARIABLES
    env_skip,         \* os.environ.get("SKIP_PREDEPLOY_CHECK", "")
    stdin,            \* the JSON envelope the host writes on standard input
    ignore_file,      \* <working_dir>/.pre-deploy-ignore: whether it exists, its lines
    config_file,      \* the wrangler config of the project, when there is one
    src_exists,       \* whether <working_dir>/src exists
    content,          \* text of the source file src/a.ts
    src_findings,     \* whether src holds a second file, src/b.ts
    pc,               \* position of the hook process: "idle" or "exited"
    exit_code,        \* exit status of the last invocation
    ran_audit,        \* whether the last invocation entered run_audit
    issues,           \* run_audit's issue list as seen by main
    blocking_rules,   \* run_audit's blocking set as seen by main
    blocking_issues,  \* main's blocking partition
    warning_issues,   \* main's warning partition
    scan_issues,      \* what scan_source_for_loop_patterns returned for it
    raw_issues,       \* an issue list handed to filter_ignored_issues
    filtered_issues,  \* the list filter_ignored_issues returned for it
    config_text,      \* text of a config file handed to a parser
    text_stripped,    \* what the comment-stripping scan of parse_jsonc made of it
    parsed,           \* what the parser did with it: raised, or the value returned
    stage,            \* position of the call under observation: "editing", "parsed" or "checked"
    rule_result,      \* what the rule under observation did: raised, or the issues returned
    report,           \* what the last invocation printed on standard error
    mtimes,           \* st_mtime of the files the session hook fingerprints (0: no such file)
    cache_file,       \* text of .claude/.cf-session-cache, when there is one
    session,          \* what the last invocation of the session hook did
    history,          \* what the invocations of the session hook did so far
    working_dir,      \* the directory of the project, as the names of its path
    other_dir,        \* the directory of a second copy of the project
    ts_file,          \* the path of the source file of both copies, from the project directory
    scanned           \* what the scanners made of the file in each copy

projectVars == <<env_skip, stdin, ignore_file, config_file, src_exists, content, src_findings>>
hookVars == <<pc, exit_code, ran_audit, issues, blocking_rules, blocking_issues, warning_issues, report>>
scanVars == <<scan_issues, raw_issues, filtered_issues>>
parserVars == <<config_text, text_stripped, parsed, stage, rule_result>>
sessionVars == <<mtimes, cache_file, session, history>>
pathVars == <<working_dir, other_dir, ts_file, scanned>>
vars == <<projectVars, hookVars, scanVars, parserVars, sessionVars, pathVars>>

NoFile == "NoFile"
NoExit == -1

-----------------------------------------------------------------------------
(* Strings                                                                 *)

\* Words of the model that have more than one letter case.
CaseFamilies ==
    { [lo |-> "sec001",  up |-> "SEC001",  mixed |-> "Sec001"],
      [lo |-> "res001",  up |-> "RES001",  mixed |-> "Res001"],
      [lo |-> "loop001", up |-> "LOOP001", mixed |-> "Loop001"],
      [lo |-> "loop004", up |-> "LOOP004", mixed |-> "Loop004"],
      [lo |-> "loop007", up |-> "LOOP007", mixed |-> "Loop007"],
      [lo |-> "cost_sim", up |-> "COST_SIM", mixed |-> "Cost_Sim"],
      [lo |-> "orders",  up |-> "ORDERS",  mixed |-> "Orders"],
      [lo |-> "events",  up |-> "EVENTS",  mixed |-> "Events"],
      [lo |-> "logs-ia", up |-> "LOGS-IA", mixed |-> "Logs-IA"],
      [lo |-> "cold_ia", up |-> "COLD_IA", mixed |-> "Cold_IA"],
      [lo |-> "cache.match", up |-> "CACHE.MATCH", mixed |-> "cache.Match"],
      [lo |-> "a.ts",    up |-> "A.TS",    mixed |-> "A.ts"],
      [lo |-> "src",     up |-> "SRC",     mixed |-> "Src"],
      [lo |-> "mocks",   up |-> "MOCKS",   mixed |-> "Mocks"],
      [lo |-> "@pre-deploy-ok", up |-> "@PRE-DEPLOY-OK", mixed |-> "@Pre-Deploy-Ok"],
      [lo |-> "skip_predeploy_check", up |-> "SKIP_PREDEPLOY_CHECK",
       mixed |-> "Skip_Predeploy_Check"],
      [lo |-> "true", up |-> "TRUE", mixed |-> "True"],
      [lo |-> "false", up |-> "FALSE", mixed |-> "False"],
      [lo |-> "yes",  up |-> "YES",  mixed |-> "Yes"],
      [lo |-> "api_key", up |-> "API_KEY", mixed |-> "Api_Key"],
      [lo |-> "secret", up |-> "SECRET", mixed |-> "Secret"],
      [lo |-> "token",  up |-> "TOKEN",  mixed |-> "Token"],
      [lo |-> "dead_letter", up |-> "DEAD_LETTER", mixed |-> "Dead_Letter"] }

FamilyOf(a) == CHOOSE f \in CaseFamilies : a \in {f.lo, f.up, f.mixed}
HasCase(a) == \E f \in CaseFamilies : a \in {f.lo, f.up, f.mixed}

\* str.lower() and str.upper(), atom by atom.
LowerAtom(a) == IF HasCase(a) THEN FamilyOf(a).lo ELSE a
UpperAtom(a) == IF HasCase(a) THEN FamilyOf(a).up ELSE a
Lower(s) == [i \in 1..Len(s) |-> LowerAtom(s[i])]
Upper(s) == [i \in 1..Len(s) |-> UpperAtom(s[i])]

MinOf(S) == CHOOSE x \in S : \A y \in S : x <= y
MaxOf(S) == CHOOSE x \in S : \A y \in S : x >= y

\* The first position from i on that holds no blank (Len(s) + 1 when none).
SkipBlanks(s, i) == MinOf({j \in i..(Len(s) + 1) : j > Len(s) \/ s[j] # " "})

\* str.strip(): leading and trailing blanks removed.
Strip(s) ==
    LET keep == {i \in 1..Len(s) : s[i] # " "}
    IN  IF keep = {} THEN <<>> ELSE SubSeq(s, MinOf(keep), MaxOf(keep))

\* s.split(sep, 1): <<before, after>>, the separator being in s.
Contains(s, a) == \E i \in 1..Len(s) : s[i] = a
FirstIndex(s, a) == MinOf({i \in 1..Len(s) : s[i] = a})
SplitOnce(s, sep) ==
    LET k == FirstIndex(s, sep)
    IN  <<SubSeq(s, 1, k - 1), SubSeq(s, k + 1, Len(s))>>

\* s.split(sep)[0]
BeforeFirst(s, sep) == IF Contains(s, sep) THEN SplitOnce(s, sep)[1] ELSE s

\* os.path.basename(s)
basename(s) ==
    LET slashes == {i \in 1..Len(s) : s[i] = "/"}
    IN  IF slashes = {} THEN s ELSE SubSeq(s, MaxOf(slashes) + 1, Len(s))

-----------------------------------------------------------------------------
(* load_ignore_file                                                        *)

EmptyPolicy == [ignore_rules |-> <<>>, blocking_rules |-> {}]

\* ignore_rules[rule_id].add(ctx), creating the entry when it is missing.
AddContext(ir, rule_id, ctx) ==
    [r \in (DOMAIN ir) \cup {rule_id} |->
        IF r = rule_id
        THEN (IF rule_id \in DOMAIN ir THEN ir[rule_id] ELSE {}) \cup {ctx}
        ELSE ir[r]]

\* One iteration of the loop over the lines of the file.
IgnoreLineStep(policy, raw) ==
    LET line == Strip(BeforeFirst(raw, "#"))
    IN  IF line = <<>> THEN policy
        ELSE IF line[1] = "!"
        THEN LET rule_id == Upper(Strip(Tail(line)))
             IN  IF rule_id # <<>>
                 THEN [policy EXCEPT !.blocking_rules = @ \cup {rule_id}]
                 ELSE policy
        ELSE LET parts == IF Contains(line, ":") THEN SplitOnce(line, ":")
                          ELSE <<line, <<>> >>
                 rule_id == Upper(Strip(parts[1]))
                 stripped == Strip(parts[2])
                 ctx == IF stripped = <<"*">> THEN <<>> ELSE stripped
             IN  IF rule_id # <<>>
                 THEN [policy EXCEPT
                          !.ignore_rules = AddContext(@, rule_id, Lower(ctx))]
                 ELSE policy

RECURSIVE IgnoreLines(_, _)
IgnoreLines(policy, lines) ==
    IF lines = <<>> THEN policy
    ELSE IgnoreLines(IgnoreLineStep(policy, Head(lines)), Tail(lines))

\* file.exists is ignore_path.exists(), file.lines is content.split('\n')
load_ignore_file(file) ==
    IF ~file.exists THEN EmptyPolicy ELSE IgnoreLines(EmptyPolicy, file.lines)

-----------------------------------------------------------------------------
(* is_rule_ignored, filter_ignored_issues                                  *)

\* A variant that compares the context as written, used to test the
\* properties of the filter.
is_rule_ignored_as_written(ignore_rules, rule_id, ctx) ==
    LET rid == Upper(rule_id)
    IN  IF rid \notin DOMAIN ignore_rules THEN FALSE
        ELSE \/ <<>> \in ignore_rules[rid]
             \/ ctx # <<>> /\ ctx \in ignore_rules[rid]

is_rule_ignored(ignore_rules, rule_id, ctx) ==
    LET rid == Upper(rule_id)
    IN  IF rid \notin DOMAIN ignore_rules THEN FALSE
        ELSE \/ <<>> \in ignore_rules[rid]
             \/ ctx # <<>> /\ Lower(ctx) \in ignore_rules[rid]

\* re.search(opener + "([^']+)'", message): the group of the leftmost match,
\* or <<>> when nothing matches.  opener is "Queue '" or "bucket '".
QuotedName(message, opener) ==
    LET closes(i) == {j \in (i + 1)..Len(message) : message[j] = "'"}
        ok(i) == /\ message[i] = opener
                 /\ closes(i) # {}
                 /\ MinOf(closes(i)) > i + 1
        starts == {i \in 1..Len(message) : ok(i)}
    IN  IF starts = {} THEN <<>>
        ELSE LET i == MinOf(starts)
             IN  SubSeq(message, i + 1, MinOf(closes(i)) - 1)

MaxLineNo == 9
DigitAtoms == {ToString(n) : n \in 0..MaxLineNo}

\* re.search(r' at ([^:]+):\d+', message): the group, or <<>>.
PathAtLine(message) ==
    LET colons(i) == {j \in (i + 1)..Len(message) : message[j] = ":"}
        ok(i) == /\ message[i] = " at "
                 /\ colons(i) # {}
                 /\ MinOf(colons(i)) > i + 1
                 /\ MinOf(colons(i)) < Len(message)
                 /\ message[MinOf(colons(i)) + 1] \in DigitAtoms
        starts == {i \in 1..Len(message) : ok(i)}
    IN  IF starts = {} THEN <<>>
        ELSE LET i == MinOf(starts)
             IN  SubSeq(message, i + 1, MinOf(colons(i)) - 1)

\* The context filter_ignored_issues extracts from a message.
extract_context(message) ==
    LET queue == QuotedName(message, "Queue '")
        c1 == IF queue # <<>> THEN queue ELSE <<>>
        bucket == QuotedName(message, "bucket '")
        c2 == IF bucket # <<>> THEN bucket ELSE c1
    IN  IF c2 = <<>> THEN PathAtLine(message) ELSE c2

contexts_to_check(ctx) ==
    IF ctx # <<>> /\ Contains(ctx, "/") THEN <<ctx, basename(ctx)>> ELSE <<ctx>>

issue_ignored(issue, ignore_rules) ==
    LET cs == contexts_to_check(extract_context(issue.message))
    IN  \E k \in 1..Len(cs) : is_rule_ignored(ignore_rules, issue.id, cs[k])

RECURSIVE FilterLoop(_, _)
FilterLoop(list, ignore_rules) ==
    IF list = <<>> THEN <<>>
    ELSE (IF issue_ignored(Head(list), ignore_rules) THEN <<>> ELSE <<Head(list)>>)
         \o FilterLoop(Tail(list), ignore_rules)

filter_ignored_issues(list, ignore_rules) ==
    IF DOMAIN ignore_rules = {} THEN list ELSE FilterLoop(list, ignore_rules)

-----------------------------------------------------------------------------
(* Config tree.  A node is [t, v]: t is the Python type of the value and v *)
(* its content; a mapping keeps its items in insertion order.              *)

PyNone == [t |-> "none", v |-> 0]
PyBool(b) == [t |-> "bool", v |-> b]
PyInt(n) == [t |-> "int", v |-> n]
PyStr(s) == [t |-> "str", v |-> s]
PyList(items) == [t |-> "seq", v |-> items]
PyDict(items) == [t |-> "map", v |-> items]
KV(key, node) == [k |-> <<key>>, v |-> node]
EmptyDict == PyDict(<<>>)
EmptyList == PyList(<<>>)

IsDict(n) == n.t = "map"
IsStr(n) == n.t = "str"

\* key in d
HasKey(d, key) == \E i \in 1..Len(d.v) : d.v[i].k = key
\* d.get(key, default), d being a dict
dict_get(d, key, default) ==
    IF HasKey(d, key)
    THEN d.v[CHOOSE i \in 1..Len(d.v) : d.v[i].k = key].v
    ELSE default

\* bool(x)
Truthy(n) ==
    CASE n.t = "none" -> FALSE
      [] n.t = "bool" -> n.v
      [] n.t = "int"  -> n.v # 0
      [] OTHER        -> n.v # <<>>

RECURSIVE CharLen(_)
CharLen(s) == IF s = <<>> THEN 0 ELSE Len(Head(s)) + CharLen(Tail(s))

\* len(str(x)) and len(repr(x))
RECURSIVE ReprLen(_, _)
RECURSIVE ReprLenItems(_, _)
ReprLen(n, quoted) ==
    CASE n.t = "none" -> 4
      [] n.t = "bool" -> IF n.v THEN 4 ELSE 5
      [] n.t = "int"  -> Len(ToString(n.v))
      [] n.t = "str"  -> CharLen(n.v) + (IF quoted THEN 2 ELSE 0)
      [] n.t = "seq"  -> 2 + ReprLenItems(n.v, FALSE)
      [] OTHER        -> 2 + ReprLenItems(n.v, TRUE)
ReprLenItems(items, keyed) ==
    IF items = <<>> THEN 0
    ELSE (IF keyed
          THEN CharLen(Head(items).k) + 4 + ReprLen(Head(items).v, TRUE)
          ELSE ReprLen(Head(items), TRUE))
         + (IF Len(items) > 1 THEN 2 ELSE 0)
         + ReprLenItems(Tail(items), keyed)
StrLen(n) == ReprLen(n, FALSE)

\* str(x) for the scalars the messages embed
StrOf(n) ==
    CASE n.t = "str"  -> n.v
      [] n.t = "int"  -> <<ToString(n.v)>>
      [] n.t = "bool" -> IF n.v THEN <<"True">> ELSE <<"False">>
      [] n.t = "none" -> <<"None">>
      [] OTHER        -> <<"<container>">>

\* x > bound for an int bound: a TypeError unless x is a number
Comparable(n) == n.t \in {"int", "bool"}
NumberOf(n) == IF n.t = "bool" THEN (IF n.v THEN 1 ELSE 0) ELSE n.v

\* for x in n: a TypeError unless n is iterable; a dict yields its keys,
\* a string its characters
Iterable(n) == n.t \in {"seq", "map", "str"}
IterItems(n) ==
    CASE n.t = "seq" -> n.v
      [] n.t = "map" -> [i \in 1..Len(n.v) |-> PyStr(n.v[i].k)]
      [] OTHER       -> [i \in 1..Len(n.v) |-> PyStr(<<n.v[i]>>)]

\* hash(x), as set.add needs it
Hashable(n) == n.t \notin {"seq", "map"}

-----------------------------------------------------------------------------
(* Issues and the outcome of a rule: the issue list, or an exception.      *)

Issue(id, severity, message) ==
    [id |-> <<id>>, severity |-> severity, message |-> message]

Returns(list) == [raised |-> FALSE, issues |-> list]
Raises == [raised |-> TRUE, issues |-> <<>>]

RECURSIVE Concat(_)
Concat(lists) == IF lists = <<>> THEN <<>> ELSE Head(lists) \o Concat(Tail(lists))

-----------------------------------------------------------------------------
(* The rules that read the config tree alone.                              *)

secret_patterns == <<"API_KEY", "SECRET", "PASSWORD", "TOKEN", "PRIVATE", "CREDENTIAL">>
SecretMinLen == 8

\* re.search(pattern, key, re.IGNORECASE)
KeyMatches(key, pattern) == \E i \in 1..Len(key) : UpperAtom(key[i]) = pattern

\* value and len(str(value)) > 8: what is evaluated before value.startswith
SecretGuard(value) == Truthy(value) /\ StrLen(value) > SecretMinLen
StartsWith(s, a) == s # <<>> /\ s[1] = a

SecretIssue(key) ==
    Issue("SEC001", "CRITICAL", <<"Potential secret in plaintext: vars.">> \o key)

\* The inner loop over secret_patterns for one item of vars, from pattern k on.
RECURSIVE SecretsOfItem(_, _, _)
SecretsOfItem(key, value, k) ==
    IF k > Len(secret_patterns) THEN <<>>
    ELSE (IF /\ KeyMatches(key, secret_patterns[k])
             /\ SecretGuard(value)
             /\ ~StartsWith(value.v, "${")
          THEN <<SecretIssue(key)>> ELSE <<>>)
         \o SecretsOfItem(key, value, k + 1)

RECURSIVE SecretsOfItems(_)
SecretsOfItems(items) ==
    IF items = <<>> THEN <<>>
    ELSE SecretsOfItem(Head(items).k, Head(items).v, 1) \o SecretsOfItems(Tail(items))

check_secrets_in_vars(config) ==
    LET vars_section == dict_get(config, <<"vars">>, EmptyDict)
    IN  IF ~IsDict(vars_section) THEN Raises           \* .items() of a non-dict
        ELSE IF \E i \in 1..Len(vars_section.v) :
                  /\ \E k \in 1..Len(secret_patterns) :
                        KeyMatches(vars_section.v[i].k, secret_patterns[k])
                  /\ SecretGuard(vars_section.v[i].v)
                  /\ ~IsStr(vars_section.v[i].v)
        THEN Raises                                     \* .startswith of a non-str
        ELSE Returns(SecretsOfItems(vars_section.v))

check_observability(config) ==
    LET observability == dict_get(config, <<"observability">>, EmptyDict)
    IN  IF ~IsDict(observability) THEN Raises
        ELSE LET logs == dict_get(observability, <<"logs">>, EmptyDict)
             IN  IF ~IsDict(logs) THEN Raises
                 ELSE IF ~Truthy(dict_get(logs, <<"enabled">>, PyNone))
                 THEN Returns(<<Issue("PERF004", "LOW", <<"Observability logs not enabled">>)>>)
                 ELSE Returns(<<>>)

check_smart_placement(config) ==
    LET placement == dict_get(config, <<"placement">>, EmptyDict)
    IN  IF ~IsDict(placement) THEN Raises
        ELSE IF dict_get(placement, <<"mode">>, PyNone) # PyStr(<<"smart">>)
        THEN Returns(<<Issue("PERF001", "LOW", <<"Smart Placement not enabled">>)>>)
        ELSE Returns(<<>>)

HighCpuMs == 10000

check_cpu_limits(config) ==
    LET limits == dict_get(config, <<"limits">>, EmptyDict)
    IN  IF ~IsDict(limits) THEN Raises
        ELSE LET cpu_ms == dict_get(limits, <<"cpu_ms">>, PyNone)
             IN  IF cpu_ms = PyNone
                 THEN Returns(<<Issue("LOOP001", "MEDIUM",
                         <<"No cpu_ms limit configured - loops could run unchecked">>)>>)
                 ELSE IF ~Comparable(cpu_ms) THEN Raises    \* cpu_ms > 10000
                 ELSE IF NumberOf(cpu_ms) > HighCpuMs
                 THEN Returns(<<Issue("LOOP001", "LOW",
                         <<"High cpu_ms limit (">> \o StrOf(cpu_ms)
                         \o <<"ms) - consider lower for API endpoints">>)>>)
                 ELSE Returns(<<>>)

check_deprecated_site_config(config) ==
    Returns(
        (IF HasKey(config, <<"site">>)
         THEN <<Issue("ARCH001", "MEDIUM",
                 <<"Deprecated [site] configuration detected - use [assets] instead">>)>>
         ELSE <<>>)
        \o
        (IF HasKey(config, <<"pages_build_output_dir">>)
         THEN <<Issue("ARCH001", "MEDIUM",
                 <<"Deprecated pages_build_output_dir detected - use [assets] instead">>)>>
         ELSE <<>>))

DefaultMaxRetries == 3
MaxSafeRetries == 2

\* consumer.get("queue", f"consumer[{i}]"), i counting from 0
QueueNameOf(consumer, i) ==
    dict_get(consumer, <<"queue">>, PyStr(<<"consumer[", ToString(i), "]">>))

\* queue_name.endswith("-dlq") or "dead_letter" in queue_name.lower()
LooksLikeDlq(name) ==
    \/ name # <<>> /\ name[Len(name)] = "-dlq"
    \/ \E i \in 1..Len(name) : LowerAtom(name[i]) = "dead_letter"

\* The body of the reporting loop for the consumer at index i (from 0).
ConsumerIssues(consumer, i) ==
    LET queue_name == QueueNameOf(consumer, i).v
        max_retries == dict_get(consumer, <<"max_retries">>, PyInt(DefaultMaxRetries))
    IN  (IF ~HasKey(consumer, <<"dead_letter_queue">>) /\ ~LooksLikeDlq(queue_name)
         THEN <<Issue("RES001", "HIGH",
                 <<"Queue '">> \o queue_name \o <<"'", " missing dead_letter_queue">>)>>
         ELSE <<>>)
        \o
        (IF NumberOf(max_retries) > MaxSafeRetries
         THEN <<Issue("COST001", "MEDIUM",
                 <<"Queue '">> \o queue_name \o <<"'", " has max_retries=">>
                 \o StrOf(max_retries) \o <<" (each retry costs $0.40/M)">>)>>
         ELSE <<>>)
        \o
        (IF ~HasKey(consumer, <<"max_concurrency">>)
         THEN <<Issue("RES002", "MEDIUM",
                 <<"Queue '">> \o queue_name \o <<"'", " has no max_concurrency limit">>)>>
         ELSE <<>>)

\* What makes the body raise: queue_name.endswith of a non-str, max_retries > 2
\* of a non-number.
ConsumerRaises(consumer, i) ==
    \/ ~IsStr(QueueNameOf(consumer, i))
    \/ ~Comparable(dict_get(consumer, <<"max_retries">>, PyInt(DefaultMaxRetries)))

RECURSIVE ConsumersLoop(_, _)
ConsumersLoop(items, i) ==
    IF i > Len(items) THEN <<>>
    ELSE (IF IsDict(items[i]) THEN ConsumerIssues(items[i], i - 1) ELSE <<>>)
         \o ConsumersLoop(items, i + 1)

\* The first two loops, which collect all_queues: set.add of an unhashable raises.
AllQueuesRaises(consumers, producers) ==
    \/ \E i \in 1..Len(consumers) :
          /\ IsDict(consumers[i])
          /\ \/ ~Hashable(dict_get(consumers[i], <<"queue">>, PyStr(<<>>)))
             \/ LET dlq == dict_get(consumers[i], <<"dead_letter_queue">>, PyStr(<<>>))
                IN  Truthy(dlq) /\ ~Hashable(dlq)
    \/ \E i \in 1..Len(producers) :
          /\ IsDict(producers[i])
          /\ ~Hashable(dict_get(producers[i], <<"queue">>, PyStr(<<>>)))

check_queue_dlq_comprehensive(config) ==
    LET queues == dict_get(config, <<"queues">>, EmptyDict)
    IN  IF ~IsDict(queues) THEN Raises
        ELSE LET consumers == dict_get(queues, <<"consumers">>, EmptyList)
                 producers == dict_get(queues, <<"producers">>, EmptyList)
             IN  IF ~Iterable(consumers) \/ ~Iterable(producers) THEN Raises
                 ELSE IF AllQueuesRaises(IterItems(consumers), IterItems(producers))
                 THEN Raises
                 ELSE IF \E i \in 1..Len(IterItems(consumers)) :
                           /\ IsDict(IterItems(consumers)[i])
                           /\ ConsumerRaises(IterItems(consumers)[i], i - 1)
                 THEN Raises
                 ELSE Returns(ConsumersLoop(IterItems(consumers), 1))

-----------------------------------------------------------------------------
(* The rules that also read the source tree.  The trees of this model hold *)
(* loop patterns only: no query, cache, inference or logging-SDK text, and *)
(* a bundle under the size budget, so of these rules the model keeps what  *)
(* they do with the config tree.                                           *)

\* Path(working_dir) / main_entry
check_bundle_size(config) ==
    IF ~IsStr(dict_get(config, <<"main">>, PyStr(<<"src/index.ts">>)))
    THEN Raises ELSE Returns(<<>>)

check_observability_extended(config) ==
    LET observability == dict_get(config, <<"observability">>, EmptyDict)
    IN  IF ~IsDict(observability) THEN Raises
        ELSE LET logs == dict_get(observability, <<"logs">>, EmptyDict)
             IN  IF ~IsDict(logs) THEN Raises
                 ELSE IF ~Truthy(dict_get(logs, <<"enabled">>, PyNone)) THEN Returns(<<>>)
                 ELSE
    LET has_tail_consumers == Truthy(dict_get(config, <<"tail_consumers">>, PyNone))
        obs002 == IF ~has_tail_consumers
                  THEN <<Issue("OBS002", "MEDIUM",
                          <<"Logs enabled but no export destination detected">>)>>
                  ELSE <<>>
        rate == dict_get(logs, <<"head_sampling_rate">>, PyInt(1))
        queues == dict_get(config, <<"queues">>, EmptyDict)
        routes == dict_get(config, <<"routes">>, EmptyList)
    IN  IF ~Comparable(rate) THEN Raises                    \* head_sampling_rate >= 1
        ELSE IF NumberOf(rate) < 1 THEN Returns(obs002)
        ELSE IF ~IsDict(queues) THEN Raises                 \* .get("consumers")
        ELSE IF ~Iterable(routes) THEN Raises               \* len(routes)
        ELSE LET has_queue_consumer ==
                     Truthy(dict_get(queues, <<"consumers">>, PyNone))
                 has_multiple_routes ==
                     \/ (IF IsStr(routes) THEN CharLen(routes.v) ELSE Len(routes.v)) > 1
                     \/ \E i \in 1..Len(IterItems(routes)) :
                           /\ IsDict(IterItems(routes)[i])
                           /\ Contains(StrOf(dict_get(IterItems(routes)[i],
                                                      <<"pattern">>, PyStr(<<>>))), "*")
             IN  IF has_queue_consumer \/ has_multiple_routes
                 THEN Returns(obs002 \o <<Issue("OBS003", "INFO",
                         <<"100% sampling rate on worker with queue/routes - may generate high log volume">>)>>)
                 ELSE Returns(obs002)

-----------------------------------------------------------------------------
(* extract_suppressions, is_suppressed, scan_source_for_loop_patterns.     *)
(* The text of a file is a sequence of atoms in which "\n" ends a line; a  *)
(* run of word characters ([A-Za-z0-9_]) is one atom, so that two word     *)
(* atoms are never adjacent.                                               *)

\* Atoms made of word characters only.
WordAtoms ==
    UNION { {f.lo, f.up, f.mixed} :
            f \in {g \in CaseFamilies : g.up \in {"SEC001", "RES001", "LOOP001",
                                                   "LOOP004", "LOOP007", "COST_SIM"}} }
    \cup {"while", "setInterval", "legacy", "x", "BUDGET009"}

RECURSIVE SplitLines(_)
\* content.split('\n')
SplitLines(text) ==
    IF ~Contains(text, "\n") THEN <<text>>
    ELSE <<SplitOnce(text, "\n")[1]>> \o SplitLines(SplitOnce(text, "\n")[2])

\* The value standing for None in a set of suppressed rules.
AllRules == "None"

\* (?://|/\*)\s*@pre-deploy-ok matched with the opener at position i:
\* the position of the marker, 0 when there is no match at i.
MarkerAfter(line, i) ==
    IF line[i] \notin {"//", "/*"} THEN 0
    ELSE LET j == SkipBlanks(line, i + 1)
         IN  IF j <= Len(line) /\ LowerAtom(line[j]) = "@pre-deploy-ok" THEN j ELSE 0

\* (?:\s+([A-Z0-9_\s]+))? after the marker at position j, case ignored: the
\* group takes the longest run of blanks and word atoms that follows, less
\* the leading blanks \s+ keeps; \s+ keeps one character when the run holds
\* blanks only.  The group takes part only when the run starts with a blank
\* and holds a second character.
SuppressedRules(line, j) ==
    LET inClass(m) == line[m] = " " \/ line[m] \in WordAtoms
        stops == {m \in (j + 1)..(Len(line) + 1) : m > Len(line) \/ ~inClass(m)}
        k == MinOf(stops) - 1
        rules_str == IF k - j >= 2 /\ line[j + 1] = " "
                     THEN SubSeq(line, j + 2, k) ELSE <<>>
    IN  IF rules_str # <<>>
        THEN {UpperAtom(rules_str[m]) : m \in {n \in 1..Len(rules_str) : rules_str[n] # " "}}
        ELSE {AllRules}

\* suppression_pattern.search(line): the rules of the leftmost match, or no match
SearchDirective(line) ==
    LET at == {i \in 1..Len(line) : MarkerAfter(line, i) # 0}
    IN  IF at = {} THEN [found |-> FALSE, rules |-> {}]
        ELSE [found |-> TRUE, rules |-> SuppressedRules(line, MarkerAfter(line, MinOf(at)))]

\* The dict of line numbers (from 1) to suppressed rules.
extract_suppressions(text) ==
    LET lines == SplitLines(text)
        from(n) == {i \in {n - 1, n} \cap (1..Len(lines)) : SearchDirective(lines[i]).found}
        affected == {n \in 1..(Len(lines) + 1) : from(n) # {}}
    IN  [n \in affected |-> UNION {SearchDirective(lines[i]).rules : i \in from(n)}]

is_suppressed(suppressions, line_num, rule_id) ==
    IF line_num \notin DOMAIN suppressions THEN FALSE
    ELSE \/ AllRules \in suppressions[line_num]
         \/ UpperAtom(rule_id) \in suppressions[line_num]

\* The entries of loop_patterns the texts of the model can match:
\* setInterval\s*\([^)]+\) and while\s*\(\s*true\s*\).
loop_patterns ==
    << [rule_id |-> "LOOP004", severity |-> "MEDIUM", first |-> "setInterval", then |-> "(f)",
        message |-> "setInterval detected - verify termination condition exists"],
       [rule_id |-> "LOOP007", severity |-> "CRITICAL", first |-> "while", then |-> "(true)",
        message |-> "Unbounded loop detected - could run until CPU limit"] >>

\* The first position from i on that holds no white space (\s*).
SkipSpace(s, i) == MinOf({j \in i..(Len(s) + 1) : j > Len(s) \/ s[j] \notin {" ", "\n"}})

\* A match of the pattern starts at position i.
MatchAt(text, i, pattern) ==
    /\ text[i] = pattern.first
    /\ LET j == SkipSpace(text, i + 1)
       IN  j <= Len(text) /\ text[j] = pattern.then

\* content[:match.start()].count('\n') + 1
LineOf(text, i) == Cardinality({k \in 1..(i - 1) : text[k] = "\n"}) + 1

\* The issue reported for a match in src/a.ts.
LoopFinding(id, severity, text, line) ==
    [id |-> <<id>>, severity |-> severity,
     message |-> <<text, " at ", "src", "/", "a.ts", ":", ToString(line)>>]

\* The inner loop over the matches of one pattern.
ScanPattern(text, pattern, suppressions) ==
    LET positions == [i \in 1..Len(text) |-> i]
        kept == SelectSeq(positions, LAMBDA i :
                    /\ MatchAt(text, i, pattern)
                    /\ ~is_suppressed(suppressions, LineOf(text, i), pattern.rule_id))
    IN  [k \in 1..Len(kept) |->
            LoopFinding(pattern.rule_id, pattern.severity, pattern.message,
                        LineOf(text, kept[k]))]

\* The body of the loop over the files, for the one file src/a.ts.
ScanFile(text) ==
    LET suppressions == extract_suppressions(text)
    IN  Concat([p \in 1..Len(loop_patterns) |->
                   ScanPattern(text, loop_patterns[p], suppressions)])

RECURSIVE Deduplicate(_, _)
\* The last loop of the function: the first issue of each (id, message) stays.
Deduplicate(list, seen) ==
    IF list = <<>> THEN <<>>
    ELSE LET key == <<Head(list).id, Head(list).message>>
         IN  IF key \in seen THEN Deduplicate(Tail(list), seen)
             ELSE <<Head(list)>> \o Deduplicate(Tail(list), seen \cup {key})

scan_source_for_loop_patterns(has_src, text) ==
    IF ~has_src THEN Returns(<<>>) ELSE Returns(Deduplicate(ScanFile(text), {}))

-----------------------------------------------------------------------------
(* run_audit                                                               *)

\* The COST_SIM entry estimate_loop_cost appends.
CostSim == [id |-> <<"COST_SIM">>, severity |-> "INFO",
            message |-> <<"Loop Cost Simulation:">>]

\* Atoms that hold a parenthesised part, \([^)]*\).
ParenAtoms == {"(true)", "(f)", "(k)"}

\* The text of src/b.ts when the project holds it: a storage write in a loop
\* that has no braces.  No entry of loop_patterns matches it (LOOP003 asks
\* for a brace between the loop head and the write).
WriteInLoopText == <<"for", " ", "(k)", " ", "b", ".put", "(k)">>

\* (for|while|forEach)\s*\([^)]*\)[^{]*\.put\s*\( has a match in text: a loop
\* head, its parenthesised part, then a .put call with no brace before it.
\* The other pattern of the function asks for .run( or .batch(, which no
\* text of the model holds.
r2_loop_matches(text) ==
    \E i \in 1..Len(text) :
        /\ text[i] \in {"for", "while", "forEach"}
        /\ LET j == SkipSpace(text, i + 1)
           IN  /\ j <= Len(text)
               /\ text[j] \in ParenAtoms
               /\ \E k \in (j + 1)..(Len(text) - 1) :
                      /\ text[k] = ".put"
                      /\ SkipSpace(text, k + 1) <= Len(text)
                      /\ text[SkipSpace(text, k + 1)] \in ParenAtoms
                      /\ \A n \in (j + 1)..(k - 1) : text[n] # "{}"

\* estimate_loop_cost reads every .ts file of src, test files included:
\* src/a.ts holds text, and src/b.ts holds WriteInLoopText when findings.cost
\* says the project holds it.  One COST_SIM entry is appended when
\* estimated_costs is not empty.
estimate_loop_cost(has_src, text, findings) ==
    IF ~has_src THEN Returns(<<>>)
    ELSE IF r2_loop_matches(text) \/ (findings.cost /\ r2_loop_matches(WriteInLoopText))
    THEN Returns(<<CostSim>>) ELSE Returns(<<>>)

\* Atoms that hold one of ia_keywords ("infrequent", "-ia", "_ia", "ia-",
\* "ia_"), among the lower-case atoms of the model.
IaAtoms == {"logs-ia", "cold_ia"}
\* any(kw in bucket_name for kw in ia_keywords): no keyword spans two atoms
\* of the names of the model.
NameSuggestsIa(bucket_name) == \E i \in 1..Len(bucket_name) : bucket_name[i] \in IaAtoms

\* get_pattern, \.get\s*\([^)]+\), matches at position i.
GetAt(text, i) ==
    /\ text[i] = ".get"
    /\ SkipSpace(text, i + 1) <= Len(text)
    /\ text[SkipSpace(text, i + 1)] \in ParenAtoms

\* The matches of get_pattern the loop does not skip as suppressed.
UnsuppressedReads(text) ==
    LET suppressions == extract_suppressions(text)
        positions == [i \in 1..Len(text) |-> i]
    IN  SelectSeq(positions, LAMBDA i :
            /\ GetAt(text, i)
            /\ ~is_suppressed(suppressions, LineOf(text, i), "BUDGET009"))

\* has_cache or has_cache_control
HasCaching(text) ==
    \E i \in 1..Len(text) :
        \/ text[i] = "caches.default"
        \/ LowerAtom(text[i]) = "cache.match"
        \/ text[i] \in {"Cache-Control", "cacheControl"}

Budget009(bucket_name) ==
    Issue("BUDGET009", "INFO",
          <<"R2 bucket '">> \o bucket_name
          \o <<"' name suggests Infrequent Access - verify storage class">>)

\* The source tree holds the one file src/a.ts, with this text.  The loop
\* over ia_suspect_buckets ends with break after its first append, so each
\* read adds an issue for the first suspect bucket.  The last loop keeps the
\* first issue of each bucket name, which is the first of each message.
check_r2_infrequent_access(config, has_src, text) ==
    LET r2_buckets == dict_get(config, <<"r2_buckets">>, EmptyList)
    IN  IF ~has_src THEN Returns(<<>>)
        ELSE IF ~Truthy(r2_buckets) THEN Returns(<<>>)
        ELSE IF ~Iterable(r2_buckets) THEN Raises
        ELSE IF \E i \in 1..Len(IterItems(r2_buckets)) :
                  \/ ~IsDict(IterItems(r2_buckets)[i])                 \* bucket.get
                  \/ ~IsStr(dict_get(IterItems(r2_buckets)[i],         \* .lower()
                                     <<"bucket_name">>, PyStr(<<>>)))
        THEN Raises
        ELSE LET names == [i \in 1..Len(IterItems(r2_buckets)) |->
                              Lower(dict_get(IterItems(r2_buckets)[i],
                                             <<"bucket_name">>, PyStr(<<>>)).v)]
                 ia_suspect_buckets == SelectSeq(names, NameSuggestsIa)
                 reads == UnsuppressedReads(text)
             IN  IF ia_suspect_buckets = <<>> THEN Returns(<<>>)
                 ELSE IF HasCaching(text) THEN Returns(<<>>)
                 ELSE Returns(Deduplicate([k \in 1..Len(reads) |->
                                              Budget009(ia_suspect_buckets[1])], {}))

\* check_d1_query_patterns, check_r2_cache_patterns and check_ai_patterns
\* report nothing for the source texts and the configs of the model.
run_audit(config, file, has_src, text, findings) ==
    LET policy == load_ignore_file(file)
        results == << check_secrets_in_vars(config),
                      check_queue_dlq_comprehensive(config),
                      check_observability(config),
                      check_smart_placement(config),
                      check_cpu_limits(config),
                      check_deprecated_site_config(config),
                      check_bundle_size(config),
                      scan_source_for_loop_patterns(has_src, text),
                      estimate_loop_cost(has_src, text, findings),
                      check_r2_infrequent_access(config, has_src, text),
                      check_observability_extended(config) >>
        collected == Concat([k \in 1..Len(results) |-> results[k].issues])
    IN  IF ~IsDict(config) \/ \E k \in 1..Len(results) : results[k].raised
        THEN [raised |-> TRUE, issues |-> <<>>, blocking_rules |-> {}]
        ELSE [raised |-> FALSE,
              issues |-> filter_ignored_issues(collected, policy.ignore_rules),
              blocking_rules |-> policy.blocking_rules]

-----------------------------------------------------------------------------
(* Command-line tests                                                      *)

\* Atoms that hold no word character ([A-Za-z0-9_]).
NonWordAtoms == {" ", "=", "\"", "'", "/", ":", "#", "!", "*", ";", "&&"}
\* \b before position i, the atom at i starting with a word character
BoundaryBefore(s, i) == i = 1 \/ s[i - 1] \in NonWordAtoms
\* \b after position i, the atom at i ending with a word character
BoundaryAfter(s, i) == i = Len(s) \/ s[i + 1] \in NonWordAtoms

\* Atoms whose text starts, in any case, with 1, true or yes.
BypassValues == {"1", "10", "true", "TRUE", "True", "yes", "YES", "Yes"}

\* A variant that matches the flag as written, used to test the properties
\* of the bypass.
check_bypass_as_written(command) ==
    \E i \in 1..Len(command) :
        /\ command[i] = "SKIP_PREDEPLOY_CHECK"
        /\ BoundaryBefore(command, i)
        /\ i + 2 <= Len(command)
        /\ command[i + 1] = "="
        /\ command[i + 2] \in {"1", "true", "yes"}

check_bypass_in_command(command) ==
    \E i \in 1..Len(command) :
        /\ UpperAtom(command[i]) = "SKIP_PREDEPLOY_CHECK"
        /\ BoundaryBefore(command, i)
        /\ LET e == SkipBlanks(command, i + 1)
           IN  /\ e <= Len(command)
               /\ command[e] = "="
               /\ LET q == SkipBlanks(command, e + 1)
                      v == IF q <= Len(command) /\ command[q] \in {"\"", "'"}
                           THEN q + 1 ELSE q
                  IN  v <= Len(command) /\ command[v] \in BypassValues

\* wrangler\s+deploy\b starting at position i
WranglerDeployAt(s, i) ==
    /\ i < Len(s)
    /\ LowerAtom(s[i]) = "wrangler"
    /\ s[i + 1] = " "
    /\ LET d == SkipBlanks(s, i + 1)
       IN  d <= Len(s) /\ LowerAtom(s[d]) = "deploy" /\ BoundaryAfter(s, d)

\* \b<runner>\s+.*wrangler\s+deploy\b
RunnerThenDeploy(s, runner) ==
    \E i \in 1..Len(s) :
        /\ LowerAtom(s[i]) = runner
        /\ BoundaryBefore(s, i)
        /\ i < Len(s) /\ s[i + 1] = " "
        /\ \E w \in (i + 2)..Len(s) : WranglerDeployAt(s, w)

is_wrangler_deploy(command) ==
    \/ \E i \in 1..Len(command) : BoundaryBefore(command, i) /\ WranglerDeployAt(command, i)
    \/ \E i \in 1..Len(command) :
          /\ LowerAtom(command[i]) = "npx" /\ BoundaryBefore(command, i)
          /\ i < Len(command) /\ command[i + 1] = " "
          /\ WranglerDeployAt(command, SkipBlanks(command, i + 1))
    \/ RunnerThenDeploy(command, "pnpm")
    \/ RunnerThenDeploy(command, "yarn")

-----------------------------------------------------------------------------
(* Config loading                                                          *)

\* find_wrangler_config: the project holds at most one config file here.
find_wrangler_config(file) == IF file.exists THEN file.name ELSE NoFile

\* load_wrangler_config: file.parse is what the parser chosen by the file's
\* extension does with its text: it raises, or returns a value.
\* The handler around the parse turns every exception into None.
load_without_handler(file) == file.parse
load_wrangler_config(file) ==
    IF file.parse.raised THEN [raised |-> FALSE, value |-> PyNone]
    ELSE [raised |-> FALSE, value |-> file.parse.value]

-----------------------------------------------------------------------------
(* main                                                                    *)

\* Nothing printed: the exits of main before the report is formatted.
NoReport ==
    [printed |-> FALSE, rules_header |-> {}, summary |-> <<0, 0>>, action |-> "",
     blocking_section |-> <<>>, warning_section |-> <<>>, cost_section |-> <<>>,
     verdict |-> "", listed |-> <<>>, also |-> 0]

\* format_issues(issues, blocking_rules) for a list that is not empty: what
\* the header, the summary, the action line and the three sections say.
\* given is FALSE when the caller passes None for blocking_rules.
format_issues(list, given, rules) ==
    LET blocking == IF given
                    THEN SelectSeq(list, LAMBDA i : i.id \in rules)
                    ELSE SelectSeq(list, LAMBDA i : i.severity = "CRITICAL")
        warning == IF given
                   THEN SelectSeq(list, LAMBDA i : i.id \notin rules /\ i.id # <<"COST_SIM">>)
                   ELSE SelectSeq(list, LAMBDA i : i.severity # "CRITICAL"
                                                   /\ i.id # <<"COST_SIM">>)
        cost_sim == SelectSeq(list, LAMBDA i : i.id = <<"COST_SIM">>)
    IN  [NoReport EXCEPT
            !.printed = TRUE,
            !.rules_header = IF given THEN rules ELSE {},
            !.summary = <<Len(blocking), Len(warning)>>,
            !.action = IF Len(blocking) > 0
                       THEN "Deployment BLOCKED - fix or suppress blocking issues"
                       ELSE "Deployment ALLOWED (warnings only)",
            !.blocking_section = blocking,
            !.warning_section = warning,
            !.cost_section = cost_sim]

\* What main appends to the formatted report before it prints it.
print_report(output, blocking, warning) ==
    IF blocking # <<>>
    THEN [output EXCEPT !.verdict = "DEPLOYMENT BLOCKED (by project config)",
                        !.listed = blocking, !.also = Len(warning)]
    ELSE [output EXCEPT !.verdict = "DEPLOYMENT ALLOWED"]

Quit(code) ==
    [exit_code |-> code, ran_audit |-> FALSE, issues |-> <<>>, blocking_rules |-> {},
     blocking_issues |-> <<>>, warning_issues |-> <<>>, report |-> NoReport]

\* Variants of the partition used to test the properties below.
SelectExact(list, rules, member) ==
    SelectSeq(list, LAMBDA i : ({i.id} = rules) = member)
partition_by_severity(list, rules) ==
    SelectSeq(list, LAMBDA i : i.severity = "CRITICAL")

RECURSIVE SelectById(_, _, _)
\* [i for i in list if (i.get("id") in rules) == member]
SelectById(list, rules, member) ==
    IF list = <<>> THEN <<>>
    ELSE (IF (Head(list).id \in rules) = member THEN <<Head(list)>> ELSE <<>>)
         \o SelectById(Tail(list), rules, member)

partition_blocking(list, rules) == SelectById(list, rules, TRUE)
partition_warning(list, rules) == SelectById(list, rules, FALSE)

\* main from "Separate blocking issues from warnings" to its exit
decide(list, rules) ==
    LET blocking == partition_blocking(list, rules)
        warning == partition_warning(list, rules)
        \* format_issues(issues, blocking_rules if blocking_rules else None)
        output == format_issues(list, rules # {}, rules)
    IN  [exit_code |-> IF blocking # <<>> THEN 2 ELSE 0, ran_audit |-> TRUE,
         issues |-> list, blocking_rules |-> rules,
         blocking_issues |-> blocking, warning_issues |-> warning,
         report |-> print_report(output, blocking, warning)]

\* An exception no handler catches ends the interpreter with status 1.
Crash == Quit(1)

\* main once run_audit has returned audit, or raised
after_audit(audit) ==
    IF audit.raised THEN [Crash EXCEPT !.ran_audit = TRUE]
    ELSE IF audit.issues = <<>>
    THEN [Quit(0) EXCEPT !.ran_audit = TRUE, !.blocking_rules = audit.blocking_rules]
    ELSE decide(audit.issues, audit.blocking_rules)

audit_and_decide(config, file, has_src, text, findings) ==
    after_audit(run_audit(config, file, has_src, text, findings))

main(env, payload, file, cfg, has_src, text, findings) ==
    IF LowerAtom(env) \in {"1", "true", "yes"} THEN Quit(0)
    ELSE IF payload.json = "invalid" THEN Quit(0)
    ELSE IF payload.json # "object" THEN Crash              \* input_data.get
    ELSE IF payload.tool_name # "Bash" THEN Quit(0)
    ELSE IF ~payload.input_is_map THEN Crash                \* tool_input.get
    ELSE IF ~payload.command_is_str THEN Crash              \* re.search(pattern, command)
    ELSE IF check_bypass_in_command(payload.command) THEN Quit(0)
    ELSE IF ~is_wrangler_deploy(payload.command) THEN Quit(0)
    ELSE IF find_wrangler_config(cfg) = NoFile THEN Quit(0)
    ELSE LET loaded == load_wrangler_config(cfg)
             config == loaded.value
         IN  IF loaded.raised THEN Crash
             ELSE IF ~Truthy(config) THEN Quit(0)
             ELSE IF ~IsDict(config) THEN [Crash EXCEPT !.ran_audit = TRUE]   \* config.get
             ELSE audit_and_decide(config, file, has_src, text, findings)

-----------------------------------------------------------------------------
(* The projects and invocations of the model.                              *)

MaxIgnoreLines == 2
MaxSourceLines == 1

\* Lines a .pre-deploy-ignore file is made of.
IgnoreLineSamples ==
    { <<"!", "SEC001">>,
      <<" ", "!", "cost_sim", " ", "#", "block">>,
      <<"RES001">>,
      <<"SEC001", " ", "#", "!", "SEC001">> }

Parsed(value) == [raised |-> FALSE, value |-> value]
ParseError == [raised |-> TRUE, value |-> PyNone]

Quiet ==
    << KV("observability", PyDict(<< KV("logs", PyDict(<<
            KV("enabled", PyBool(TRUE)), KV("head_sampling_rate", PyInt(0)) >>)) >>)),
       KV("tail_consumers", PyList(<< PyDict(<< KV("service", PyStr(<<"tail">>)) >>) >>)),
       KV("placement", PyDict(<< KV("mode", PyStr(<<"smart">>)) >>)),
       KV("limits", PyDict(<< KV("cpu_ms", PyInt(50)) >>)) >>

TunedConsumer ==
    PyDict(<< KV("queue", PyStr(<<"orders">>)), KV("max_retries", PyInt(1)),
              KV("max_concurrency", PyInt(5)) >>)

\* Config files: the file name and what parsing its text gives.
ConfigSamples ==
    << \* 1: text that does not parse
       [exists |-> TRUE, name |-> "wrangler.toml", parse |-> ParseError],
       [exists |-> TRUE, name |-> "wrangler.jsonc", parse |-> ParseError],
       \* 3: no section at all
       [exists |-> TRUE, name |-> "wrangler.toml",
        parse |-> Parsed(PyDict(<< KV("name", PyStr(<<"worker">>)) >>))],
       \* 4: every config rule satisfied
       [exists |-> TRUE, name |-> "wrangler.jsonc", parse |-> Parsed(PyDict(Quiet))],
       \* 5: a plaintext secret and a consumer without dead-letter queue
       [exists |-> TRUE, name |-> "wrangler.jsonc",
        parse |-> Parsed(PyDict(<<
            KV("vars", PyDict(<< KV("API_KEY", PyStr(<<"sk_live_abcdef123456">>)) >>)),
            KV("queues", PyDict(<< KV("consumers", PyList(<<TunedConsumer>>)) >>)) >>
            \o Quiet))],
       \* 6: the same secret alone
       [exists |-> TRUE, name |-> "wrangler.toml",
        parse |-> Parsed(PyDict(<<
            KV("vars", PyDict(<< KV("API_KEY", PyStr(<<"sk_live_abcdef123456">>)) >>)) >>
            \o Quiet))],
       \* 7: a numeric value under a secret-like key
       [exists |-> TRUE, name |-> "wrangler.toml",
        parse |-> Parsed(PyDict(<<
            KV("vars", PyDict(<< KV("API_KEY", PyInt(123456789)) >>)) >>))],
       \* 8: vars bound to a scalar
       [exists |-> TRUE, name |-> "wrangler.toml",
        parse |-> Parsed(PyDict(<< KV("vars", PyStr(<<"production">>)) >>))],
       \* 9: a string where cpu_ms wants a number
       [exists |-> TRUE, name |-> "wrangler.jsonc",
        parse |-> Parsed(PyDict(<<
            KV("limits", PyDict(<< KV("cpu_ms", PyStr(<<"50ms">>)) >>)) >>))],
       \* 10: limits bound to a number
       [exists |-> TRUE, name |-> "wrangler.toml",
        parse |-> Parsed(PyDict(<< KV("limits", PyInt(50)) >>))],
       \* 11: a consumer whose queue name is a number
       [exists |-> TRUE, name |-> "wrangler.toml",
        parse |-> Parsed(PyDict(<<
            KV("queues", PyDict(<< KV("consumers", PyList(<<
                PyDict(<< KV("queue", PyInt(7)) >>) >>)) >>)) >>))],
       \* 12: observability bound to a boolean
       [exists |-> TRUE, name |-> "wrangler.toml",
        parse |-> Parsed(PyDict(<< KV("observability", PyBool(TRUE)) >>))],
       \* 13: routes bound to a number, logs enabled
       [exists |-> TRUE, name |-> "wrangler.jsonc",
        parse |-> Parsed(PyDict(<<
            KV("routes", PyInt(5)),
            KV("observability", PyDict(<< KV("logs", PyDict(<<
                KV("enabled", PyBool(TRUE)) >>)) >>)) >>))],
       \* 14: r2_buckets a table instead of an array of tables
       [exists |-> TRUE, name |-> "wrangler.toml",
        parse |-> Parsed(PyDict(<<
            KV("r2_buckets", PyDict(<< KV("binding", PyStr(<<"BUCKET">>)) >>)) >>))],
       \* 15: the empty mapping
       [exists |-> TRUE, name |-> "wrangler.jsonc", parse |-> Parsed(EmptyDict)],
       \* 16: a key of vars that holds two secret-like tokens
       [exists |-> TRUE, name |-> "wrangler.toml",
        parse |-> Parsed(PyDict(<<
            KV("vars", PyDict(<< [k |-> <<"SECRET", "_", "TOKEN">>,
                                  v |-> PyStr(<<"sk_live_abcdef123456">>)] >>)) >>
            \o Quiet))] >>

\* Lines of src/a.ts the pattern scanner reports.
LoopLineSamples ==
    { <<"while", " ", "(true)", " ", "{}">>,
      <<"setInterval", "(f)">> }

\* No parser call under observation.
NotParsed == [raised |-> FALSE, value |-> PyNone]
ParserIdle ==
    /\ config_text = <<>>
    /\ text_stripped = <<>>
    /\ parsed = NotParsed
    /\ stage = "editing"
    /\ rule_result = Returns(<<>>)

\* The session hook has not run, and the project holds none of the files
\* it fingerprints.
SessionFiles == <<"wrangler.toml", "wrangler.jsonc", "wrangler.json", "package.json">>
NoSession ==
    [exit_code |-> NoExit, detected |-> FALSE, announced |-> FALSE,
     redetected |-> FALSE, repeated |-> FALSE]
NoHistory == [analysed |-> FALSE, announced_for |-> {}]
SessionIdle ==
    /\ mtimes = [f \in {SessionFiles[k] : k \in 1..Len(SessionFiles)} |-> 0]
    /\ cache_file = [exists |-> FALSE, text |-> <<>>]
    /\ session = NoSession
    /\ history = NoHistory

\* No scan of the two copies under observation: both live in /home, the
\* file is src/a.ts.
NotScanned == [done |-> FALSE, here |-> <<>>, there |-> <<>>]
PathsIdle ==
    /\ working_dir = <<"home">>
    /\ other_dir = <<"home">>
    /\ ts_file = <<"src", "a.ts">>
    /\ scanned = NotScanned

\* text with one more line
AppendLine(text, line) == IF text = <<>> THEN line ELSE text \o <<"\n">> \o line

DeployPayload ==
    [json |-> "object", tool_name |-> "Bash", input_is_map |-> TRUE, command_is_str |-> TRUE,
     command |-> <<"npx", " ", "wrangler", " ", "deploy">>]

NoIgnoreFile == [exists |-> FALSE, lines |-> <<>>]
NoConfigFile == [exists |-> FALSE, name |-> NoFile, parse |-> ParseError]

Init ==
    /\ env_skip = ""
    /\ stdin = DeployPayload
    /\ ignore_file = NoIgnoreFile
    /\ config_file = NoConfigFile
    /\ src_exists = FALSE
    /\ src_findings = [cost |-> FALSE]
    /\ pc = "idle"
    /\ exit_code = NoExit
    /\ ran_audit = FALSE
    /\ issues = <<>>
    /\ blocking_rules = {}
    /\ blocking_issues = <<>>
    /\ warning_issues = <<>>
    /\ report = NoReport
    /\ content = <<>>
    /\ scan_issues = <<>>
    /\ raw_issues = <<>>
    /\ filtered_issues = <<>>
    /\ ParserIdle
    /\ SessionIdle
    /\ PathsIdle

\* The user appends a line to .pre-deploy-ignore, creating the file.
WriteIgnoreLine(line) ==
    /\ pc = "idle"
    /\ Len(ignore_file.lines) < MaxIgnoreLines
    /\ ignore_file' = [exists |-> TRUE, lines |-> Append(ignore_file.lines, line)]
    /\ UNCHANGED <<env_skip, stdin, config_file, src_exists, content, src_findings>>
    /\ UNCHANGED <<hookVars, scanVars, parserVars>>
    /\ UNCHANGED <<sessionVars, pathVars>>

\* The user saves the wrangler config.
WriteConfig(k) ==
    /\ pc = "idle"
    /\ config_file' = ConfigSamples[k]
    /\ UNCHANGED <<env_skip, stdin, ignore_file, src_exists, content, src_findings>>
    /\ UNCHANGED <<hookVars, scanVars, parserVars>>
    /\ UNCHANGED <<sessionVars, pathVars>>

\* The user creates the src directory.
MakeSrcDir ==
    /\ pc = "idle"
    /\ ~src_exists
    /\ src_exists' = TRUE
    /\ UNCHANGED <<env_skip, stdin, ignore_file, config_file, content, src_findings>>
    /\ UNCHANGED <<hookVars, scanVars, parserVars>>
    /\ UNCHANGED <<sessionVars, pathVars>>

\* The user adds a line to src/a.ts.
AddLoop(line) ==
    /\ pc = "idle"
    /\ src_exists
    /\ Len(SplitLines(content)) < MaxSourceLines \/ content = <<>>
    /\ content' = AppendLine(content, line)
    /\ UNCHANGED <<env_skip, stdin, ignore_file, config_file, src_exists, src_findings>>
    /\ UNCHANGED <<hookVars, scanVars, parserVars>>
    /\ UNCHANGED <<sessionVars, pathVars>>

\* The user adds src/b.ts, a storage write inside a loop without braces.
AddWriteInLoop ==
    /\ pc = "idle"
    /\ src_exists
    /\ ~src_findings.cost
    /\ src_findings' = [src_findings EXCEPT !.cost = TRUE]
    /\ UNCHANGED <<env_skip, stdin, ignore_file, config_file, src_exists, content>>
    /\ UNCHANGED <<hookVars, scanVars, parserVars>>
    /\ UNCHANGED <<sessionVars, pathVars>>

\* One invocation of the hook, from its start to its exit.
RunHook ==
    /\ pc = "idle"
    /\ \E r \in {main(env_skip, stdin, ignore_file, config_file, src_exists, content,
                      src_findings)} :
           /\ exit_code' = r.exit_code
           /\ ran_audit' = r.ran_audit
           /\ issues' = r.issues
           /\ blocking_rules' = r.blocking_rules
           /\ blocking_issues' = r.blocking_issues
           /\ warning_issues' = r.warning_issues
           /\ report' = r.report
    /\ pc' = "exited"
    /\ UNCHANGED <<projectVars, scanVars, parserVars>>
    /\ UNCHANGED <<sessionVars, pathVars>>

\* The process is gone; the next invocation starts from nothing.
Forget ==
    /\ pc = "exited"
    /\ pc' = "idle"
    /\ exit_code' = NoExit
    /\ ran_audit' = FALSE
    /\ issues' = <<>>
    /\ blocking_rules' = {}
    /\ blocking_issues' = <<>>
    /\ warning_issues' = <<>>
    /\ report' = NoReport
    /\ UNCHANGED <<projectVars, scanVars, parserVars>>
    /\ UNCHANGED <<sessionVars, pathVars>>

Next ==
    \/ \E line \in IgnoreLineSamples : WriteIgnoreLine(line)
    \/ \E k \in 1..Len(ConfigSamples) : WriteConfig(k)
    \/ MakeSrcDir
    \/ \E line \in LoopLineSamples : AddLoop(line)
    \/ AddWriteInLoop
    \/ RunHook
    \/ Forget

Spec == Init /\ [][Next]_vars

-----------------------------------------------------------------------------
(* Properties of the verdict                                               *)

IdsOf(list) == [i \in 1..Len(list) |-> list[i].id[1]]

RECURSIVE IsSubSeq(_, _)
\* a is b with some elements left out
IsSubSeq(a, b) ==
    IF a = <<>> THEN TRUE
    ELSE IF b = <<>> THEN FALSE
    ELSE IF Head(a) = Head(b) THEN IsSubSeq(Tail(a), Tail(b))
    ELSE IsSubSeq(a, Tail(b))

RuleUniverse ==
    { <<"SEC001">>, <<"RES001">>, <<"LOOP004">>, <<"LOOP007">>, <<"COST_SIM">> }

\* C1: the hook exits 2 exactly when an issue that survived the ignore file
\* has its id in the blocking set; the blocking partition is those issues and
\* the warning partition the others, both in order, whatever the severities.
C1_VerdictByBlockingSet ==
    pc = "exited" =>
        /\ exit_code = 2 <=> \E i \in 1..Len(issues) : issues[i].id \in blocking_rules
        /\ blocking_issues = SelectSeq(issues, LAMBDA i : i.id \in blocking_rules)
        /\ warning_issues = SelectSeq(issues, LAMBDA i : i.id \notin blocking_rules)

C1_Witness ==
    /\ pc = "exited"
    /\ exit_code = 2
    /\ blocking_rules = { <<"SEC001">> }
    /\ IdsOf(issues) = <<"SEC001", "RES001">>
    /\ IdsOf(blocking_issues) = <<"SEC001">>
    /\ IdsOf(warning_issues) = <<"RES001">>
    /\ blocking_issues[1].severity = "CRITICAL"

\* C2: without a .pre-deploy-ignore file the policy is empty and the hook
\* allows (exit 0) whatever the config and the source tree are.
C2_NoIgnoreFileAllows ==
    (pc = "exited" /\ ~ignore_file.exists) =>
        /\ load_ignore_file(ignore_file) = EmptyPolicy
        /\ blocking_rules = {}
        /\ exit_code = 0

\* C3: a COST_SIM entry is never in the blocking partition, and the exit
\* status is the one the other issues alone give.
C3_CostSimNeverBlocks ==
    pc = "exited" =>
        /\ \A i \in 1..Len(blocking_issues) : blocking_issues[i].id # <<"COST_SIM">>
        /\ exit_code = 2 =>
              \E i \in 1..Len(issues) :
                  issues[i].id \in blocking_rules /\ issues[i].id # <<"COST_SIM">>

\* C4: with the issue list fixed, adding a rule id to the blocking set only
\* moves issues of that rule from the warning to the blocking partition, and
\* a blocked deployment stays blocked.
C4_DecisionMonotone ==
    (pc = "exited" /\ ran_audit) =>
        \A r \in RuleUniverse :
            LET d0 == decide(issues, blocking_rules)
                d1 == decide(issues, blocking_rules \cup {r})
            IN  /\ IsSubSeq(d0.blocking_issues, d1.blocking_issues)
                /\ IsSubSeq(d1.warning_issues, d0.warning_issues)
                /\ \A i \in 1..Len(issues) :
                      issues[i].id \in blocking_rules =>
                          \E j \in 1..Len(d1.blocking_issues) :
                              d1.blocking_issues[j] = issues[i]
                /\ \A j \in 1..Len(d1.blocking_issues) :
                      \/ d1.blocking_issues[j].id = r
                      \/ \E i \in 1..Len(d0.blocking_issues) :
                            d0.blocking_issues[i] = d1.blocking_issues[j]
                /\ d0.exit_code = 2 => d1.exit_code = 2

C4_Witness ==
    /\ pc = "exited"
    /\ ran_audit
    /\ exit_code = 2
    /\ warning_issues # <<>>
    /\ \E r \in RuleUniverse :
          /\ r \notin blocking_rules
          /\ Len(decide(issues, blocking_rules \cup {r}).blocking_issues)
                 > Len(blocking_issues)

\* C9: a config file that does not parse is reported as absent by
\* load_wrangler_config, nothing is raised, and the hook exits 0 before any
\* rule runs, blocking rules or not.
C9_ParseFailureAllows ==
    (pc = "exited" /\ config_file.exists /\ config_file.parse.raised) =>
        /\ load_wrangler_config(config_file) = [raised |-> FALSE, value |-> PyNone]
        /\ exit_code = 0
        /\ ~ran_audit

C9_Witness ==
    /\ pc = "exited"
    /\ config_file.exists
    /\ config_file.parse.raised
    /\ load_ignore_file(ignore_file).blocking_rules # {}
    /\ src_exists /\ content # <<>>
    /\ exit_code = 0

\* C10: run_audit returns an issue list for every config whose root is a
\* mapping, whatever the types of the nodes below it.
C10_AuditNeverFatal ==
    (config_file.exists /\ ~config_file.parse.raised
        /\ IsDict(config_file.parse.value)) =>
        ~run_audit(config_file.parse.value, ignore_file, src_exists, content,
                   src_findings).raised

\* C21: the issue list run_audit returns to main holds no two issues with
\* the same rule id and the same message, whatever the config and the source
\* tree are, a vars key that holds two secret-like tokens included.
C21_NoDuplicateIssues ==
    (pc = "exited" /\ ran_audit) =>
        \A i, j \in 1..Len(issues) :
            (issues[i].id = issues[j].id /\ issues[i].message = issues[j].message) => i = j

\* C24: the report never infers the blocking status from severity: for
\* every issue list and blocking set, the empty set included, the issues
\* under the report's blocking section are main's blocking partition, and its
\* action line says BLOCKED exactly when the hook exits 2.
C24_ReportAgreesWithVerdict ==
    (pc = "exited" /\ report.printed) =>
        /\ report.blocking_section = blocking_issues
        /\ (report.action = "Deployment BLOCKED - fix or suppress blocking issues")
               <=> exit_code = 2
        /\ (report.action = "Deployment ALLOWED (warnings only)") <=> exit_code = 0

\* The rules the source scan reports for loops.
LoopSensitive == {<<"LOOP002">>, <<"LOOP003">>, <<"LOOP004">>, <<"LOOP005">>, <<"LOOP007">>}
CostSimEntries == {i \in 1..Len(issues) : issues[i].id = <<"COST_SIM">>}

\* C25: when an audit has returned its result, the result holds exactly one
\* COST_SIM entry if the source scan reports a loop-sensitive issue, none if
\* it reports no such issue, and never more than one.
C25_CostSimTracksLoops ==
    (pc = "exited" /\ ran_audit /\ exit_code # 1) =>
        LET scan == scan_source_for_loop_patterns(src_exists, content).issues
            loops == {i \in 1..Len(scan) : scan[i].id \in LoopSensitive}
        IN  /\ Cardinality(CostSimEntries) <= 1
            /\ loops # {} <=> Cardinality(CostSimEntries) = 1

-----------------------------------------------------------------------------
(* The pattern scanner alone, over the texts of one source file.           *)

MaxScanLines == 3

\* Lines of src/a.ts: directives in both comment styles, with and without
\* rule names, reasons and trailing blanks; loops; an inline directive.
ScanLineSamples ==
    { <<"//", " ", "@pre-deploy-ok", " ", "LOOP007">>,
      <<"//", " ", "@pre-deploy-ok">>,
      <<"//", " ", "@pre-deploy-ok", " ", " ">>,
      <<"/*", " ", "@PRE-DEPLOY-OK", " ", "loop004", " ", "*/">>,
      <<"//", " ", "@pre-deploy-ok", " ", "-", " ", "legacy">>,
      <<"while", " ", "(true)", " ", "{}">>,
      <<"setInterval", "(f)">>,
      <<"while", "(true)", " ", "{}", " ", "//", "@pre-deploy-ok", " ", "LOOP007">>,
      <<"x">> }

InitScan ==
    /\ env_skip = ""
    /\ stdin = DeployPayload
    /\ ignore_file = NoIgnoreFile
    /\ config_file = NoConfigFile
    /\ src_exists = TRUE
    /\ content = <<>>
    /\ src_findings = [cost |-> FALSE]
    /\ pc = "idle"
    /\ exit_code = NoExit
    /\ ran_audit = FALSE
    /\ issues = <<>>
    /\ blocking_rules = {}
    /\ blocking_issues = <<>>
    /\ warning_issues = <<>>
    /\ report = NoReport
    /\ scan_issues = <<>>
    /\ raw_issues = <<>>
    /\ filtered_issues = <<>>
    /\ ParserIdle
    /\ SessionIdle
    /\ PathsIdle

\* The user adds a line to src/a.ts.
TypeLine(line) ==
    /\ pc = "idle"
    /\ Len(SplitLines(content)) < MaxScanLines \/ content = <<>>
    /\ content' = AppendLine(content, line)
    /\ UNCHANGED <<env_skip, stdin, ignore_file, config_file, src_exists, src_findings>>
    /\ UNCHANGED <<hookVars, scanVars, parserVars>>
    /\ UNCHANGED <<sessionVars, pathVars>>

\* One call of scan_source_for_loop_patterns.
ScanSource ==
    /\ pc = "idle"
    /\ scan_issues' = scan_source_for_loop_patterns(src_exists, content).issues
    /\ pc' = "scanned"
    /\ UNCHANGED <<projectVars, parserVars, exit_code, ran_audit, issues, blocking_rules,
                   blocking_issues, warning_issues, report, raw_issues, filtered_issues>>
    /\ UNCHANGED <<sessionVars, pathVars>>

\* The result is dropped and the file edited again.
EditAgain ==
    /\ pc = "scanned"
    /\ scan_issues' = <<>>
    /\ pc' = "idle"
    /\ UNCHANGED <<projectVars, parserVars, exit_code, ran_audit, issues, blocking_rules,
                   blocking_issues, warning_issues, report, raw_issues, filtered_issues>>
    /\ UNCHANGED <<sessionVars, pathVars>>

NextScan ==
    \/ \E line \in ScanLineSamples : TypeLine(line)
    \/ ScanSource
    \/ EditAgain

SpecScan == InitScan /\ [][NextScan]_vars

\* Whether line n of the file holds a directive: a comment opener, blanks,
\* the marker in any case.
HasDirective(n) ==
    LET line == SplitLines(content)[n]
    IN  \E i \in 1..Len(line) :
            /\ line[i] \in {"//", "/*"}
            /\ \E j \in (i + 1)..Len(line) :
                  /\ LowerAtom(line[j]) = "@pre-deploy-ok"
                  /\ \A m \in (i + 1)..(j - 1) : line[m] = " "

\* The rule ids the directive of line n names: the words that follow the
\* marker up to the first atom that is neither a word nor a blank.
NamedRules(n) ==
    LET line == SplitLines(content)[n]
        j == MinOf({m \in 1..Len(line) : LowerAtom(line[m]) = "@pre-deploy-ok"})
        isName(m) == /\ line[m] \in WordAtoms
                     /\ \A q \in (j + 1)..m : line[q] \in WordAtoms \cup {" "}
    IN  {UpperAtom(line[m]) : m \in {q \in (j + 1)..Len(line) : isName(q)}}

\* The directive of line n covers rule id: it names it, or names none.
Covers(n, id) ==
    /\ n \in 1..Len(SplitLines(content))
    /\ HasDirective(n)
    /\ NamedRules(n) = {} \/ id \in NamedRules(n)

Reported(id, n) ==
    \E k \in 1..Len(scan_issues) :
        /\ scan_issues[k].id = <<id>>
        /\ scan_issues[k].message[Len(scan_issues[k].message)] = ToString(n)

\* C5: a match of rule R on line n is left out of the scan's issues exactly
\* when a directive on line n or on line n - 1 names R or names no rule; so
\* a directive on line L acts on L and L + 1 and not on L + 2.
C5_DirectiveSuppresses ==
    pc = "scanned" =>
        \A p \in 1..Len(loop_patterns) : \A i \in 1..Len(content) :
            MatchAt(content, i, loop_patterns[p]) =>
                LET id == loop_patterns[p].rule_id
                    n == LineOf(content, i)
                IN  Reported(id, n) <=> ~(Covers(n, id) \/ Covers(n - 1, id))

-----------------------------------------------------------------------------
(* filter_ignored_issues alone, over ignore files and issue lists.         *)

MaxFilterLines == 2
MaxRawIssues == 2

\* Suppression lines of a .pre-deploy-ignore file.
SuppressLineSamples ==
    { <<"RES001">>,
      <<"res001", ":", "*">>,
      <<"RES001", ":", " ", "Orders">>,
      <<"RES001", ":", "logs-ia">>,
      <<"LOOP007", ":", "src", "/", "a.ts">>,
      <<"loop007", ":", "A.ts", " ", "#", "legacy">>,
      <<"!", "RES001">> }

\* Issues the rules produce: a queue, a bucket, both, a source location, none.
IssueSamples ==
    { Issue("RES001", "HIGH", <<"Queue '", "Orders", "'", " missing dead_letter_queue">>),
      Issue("RES001", "HIGH", <<"Queue '", "events", "'", " missing dead_letter_queue">>),
      Issue("RES001", "MEDIUM", <<"Queue '", "orders", "'", " feeds ", "bucket '", "logs-ia", "'">>),
      LoopFinding("LOOP007", "CRITICAL",
                  "Unbounded loop detected - could run until CPU limit", 3),
      Issue("SEC001", "CRITICAL", <<"Potential secret in plaintext">>) }

InitFilter ==
    /\ env_skip = ""
    /\ stdin = DeployPayload
    /\ ignore_file = NoIgnoreFile
    /\ config_file = NoConfigFile
    /\ src_exists = FALSE
    /\ content = <<>>
    /\ src_findings = [cost |-> FALSE]
    /\ pc = "idle"
    /\ exit_code = NoExit
    /\ ran_audit = FALSE
    /\ issues = <<>>
    /\ blocking_rules = {}
    /\ blocking_issues = <<>>
    /\ warning_issues = <<>>
    /\ report = NoReport
    /\ scan_issues = <<>>
    /\ raw_issues = <<>>
    /\ filtered_issues = <<>>
    /\ ParserIdle
    /\ SessionIdle
    /\ PathsIdle

\* The user appends a line to .pre-deploy-ignore, creating the file.
AddSuppressLine(line) ==
    /\ pc = "idle"
    /\ Len(ignore_file.lines) < MaxFilterLines
    /\ ignore_file' = [exists |-> TRUE, lines |-> Append(ignore_file.lines, line)]
    /\ UNCHANGED <<env_skip, stdin, config_file, src_exists, content, src_findings>>
    /\ UNCHANGED <<hookVars, scanVars, parserVars>>
    /\ UNCHANGED <<sessionVars, pathVars>>

\* A rule appends an issue to the list of the audit.
ReportIssue(issue) ==
    /\ pc = "idle"
    /\ Len(raw_issues) < MaxRawIssues
    /\ raw_issues' = Append(raw_issues, issue)
    /\ UNCHANGED <<projectVars, parserVars, hookVars, scan_issues, filtered_issues>>
    /\ UNCHANGED <<sessionVars, pathVars>>

\* run_audit's last step: load the ignore file and filter the list.
FilterIssues ==
    /\ pc = "idle"
    /\ filtered_issues' =
           filter_ignored_issues(raw_issues, load_ignore_file(ignore_file).ignore_rules)
    /\ pc' = "filtered"
    /\ UNCHANGED <<projectVars, parserVars, exit_code, ran_audit, issues, blocking_rules,
                   blocking_issues, warning_issues, report, scan_issues, raw_issues>>
    /\ UNCHANGED <<sessionVars, pathVars>>

\* The next audit starts from an empty list.
NextAudit ==
    /\ pc = "filtered"
    /\ raw_issues' = <<>>
    /\ filtered_issues' = <<>>
    /\ pc' = "idle"
    /\ UNCHANGED <<projectVars, parserVars, exit_code, ran_audit, issues, blocking_rules,
                   blocking_issues, warning_issues, report, scan_issues>>
    /\ UNCHANGED <<sessionVars, pathVars>>

NextFilter ==
    \/ \E line \in SuppressLineSamples : AddSuppressLine(line)
    \/ \E issue \in IssueSamples : ReportIssue(issue)
    \/ FilterIssues
    \/ NextAudit

SpecFilter == InitFilter /\ [][NextFilter]_vars

\* What a line of the ignore file says once its comment and the blanks
\* around it are gone: the rule, and the context after the colon.
LineBody(line) == Strip(BeforeFirst(line, "#"))
LineRule(line) ==
    Upper(Strip(BeforeFirst(LineBody(line), ":")))
LineContext(line) ==
    IF Contains(LineBody(line), ":") THEN Strip(SplitOnce(LineBody(line), ":")[2]) ELSE <<>>
IsSuppressLine(line) == LineBody(line) # <<>> /\ LineBody(line)[1] # "!"

\* The line removes the issue: same rule, and no context, "*", or the
\* context of the issue (its path or its file name), letter case aside.
LineRemoves(line, issue) ==
    /\ IsSuppressLine(line)
    /\ LineRule(line) = Upper(issue.id)
    /\ LET ctx == extract_context(issue.message)
       IN  \/ LineContext(line) \in {<<>>, <<"*">>}
           \/ /\ ctx # <<>>
              /\ Lower(LineContext(line)) \in {Lower(ctx), Lower(basename(ctx))}

\* C6: the filtered list is the issue list, in order, less the issues some
\* suppression line of the ignore file removes.
C6_IgnoreFileFiltering ==
    pc = "filtered" =>
        filtered_issues =
            SelectSeq(raw_issues, LAMBDA issue :
                ~\E k \in 1..Len(ignore_file.lines) :
                    LineRemoves(ignore_file.lines[k], issue))

\* A scoped line removed one issue of its rule and left another of the same
\* rule and one of another rule; the context matched in another letter case.
C6_Witness ==
    /\ pc = "filtered"
    /\ ignore_file.lines = << <<"RES001", ":", " ", "Orders">> >>
    /\ \E k \in 1..Len(raw_issues) :
          /\ raw_issues[k].id = <<"RES001">>
          /\ extract_context(raw_issues[k].message) = <<"Orders">>
    /\ Len(filtered_issues) = 1
    /\ Len(raw_issues) = 2
    /\ filtered_issues[1].id = <<"RES001">>
    /\ extract_context(filtered_issues[1].message) = <<"events">>

\* The first of: the quoted queue name, the quoted bucket name, the path
\* before ":line".
FirstMatch(message) ==
    IF QuotedName(message, "Queue '") # <<>> THEN QuotedName(message, "Queue '")
    ELSE IF QuotedName(message, "bucket '") # <<>> THEN QuotedName(message, "bucket '")
    ELSE PathAtLine(message)

\* C7: every issue is looked up under the first candidate its message holds,
\* so a scoped line naming the queue of the message removes the issue.
C7_FirstContextWins ==
    pc = "filtered" =>
        \A k \in 1..Len(raw_issues) :
            LET issue == raw_issues[k]
            IN  /\ extract_context(issue.message) = FirstMatch(issue.message)
                /\ (\E n \in 1..Len(ignore_file.lines) :
                       /\ IsSuppressLine(ignore_file.lines[n])
                       /\ LineRule(ignore_file.lines[n]) = Upper(issue.id)
                       /\ Lower(LineContext(ignore_file.lines[n]))
                              = Lower(FirstMatch(issue.message)))
                   => \A j \in 1..Len(filtered_issues) : filtered_issues[j] # issue

-----------------------------------------------------------------------------
(* Invocations: what the host passes to the hook, over a project whose     *)
(* deployment the audit stops or lets through.                             *)

\* Values of SKIP_PREDEPLOY_CHECK in the environment of the hook ("" when unset).
EnvSamples == {"", "1", "true", "TRUE", "Yes", "0", "false"}

BashPayload(command) ==
    [json |-> "object", tool_name |-> "Bash", input_is_map |-> TRUE, command_is_str |-> TRUE, command |-> command]

\* Envelopes on standard input.
PayloadSamples ==
    { DeployPayload,
      BashPayload(<<"SKIP_PREDEPLOY_CHECK", "=", "1", " ", "npx", " ", "wrangler", " ", "deploy">>),
      BashPayload(<<"skip_predeploy_check", " ", "=", " ", "\"", "True", "\"", " ",
                    "wrangler", " ", "deploy">>),
      BashPayload(<<"SKIP_PREDEPLOY_CHECK", "=", "yes", " ", "pnpm", " ", "exec", " ",
                    "wrangler", " ", "deploy">>),
      BashPayload(<<"SKIP_PREDEPLOY_CHECK", "=", "0", " ", "npx", " ", "wrangler", " ", "deploy">>),
      BashPayload(<<"SKIP_PREDEPLOY_CHECK", "=", "false", " ", "wrangler", " ", "deploy">>),
      BashPayload(<<"SKIP_PREDEPLOY_CHECK", " ", "wrangler", " ", "deploy">>),
      BashPayload(<<"ls">>),
      [json |-> "object", tool_name |-> "Write", input_is_map |-> TRUE, command_is_str |-> TRUE, command |-> <<>>],
      [json |-> "object", tool_name |-> "Bash", input_is_map |-> FALSE, command_is_str |-> TRUE, command |-> <<>>],
      [json |-> "object", tool_name |-> "Bash", input_is_map |-> TRUE,
       command_is_str |-> FALSE, command |-> <<>>],
      [json |-> "array", tool_name |-> "", input_is_map |-> FALSE, command_is_str |-> TRUE, command |-> <<>>],
      [json |-> "invalid", tool_name |-> "", input_is_map |-> FALSE, command_is_str |-> TRUE, command |-> <<>>] }

BlockingIgnoreFile ==
    [exists |-> TRUE, lines |-> << <<"!", "LOOP001">>, <<"!", "SEC001">> >>]

InitInvoke ==
    /\ env_skip = ""
    /\ stdin = DeployPayload
    /\ ignore_file \in {NoIgnoreFile, BlockingIgnoreFile}
    /\ config_file = NoConfigFile
    /\ src_exists = FALSE
    /\ content = <<>>
    /\ src_findings = [cost |-> FALSE]
    /\ pc = "idle"
    /\ exit_code = NoExit
    /\ ran_audit = FALSE
    /\ issues = <<>>
    /\ blocking_rules = {}
    /\ blocking_issues = <<>>
    /\ warning_issues = <<>>
    /\ report = NoReport
    /\ scan_issues = <<>>
    /\ raw_issues = <<>>
    /\ filtered_issues = <<>>
    /\ ParserIdle
    /\ SessionIdle
    /\ PathsIdle

\* The host starts the hook with this value of the flag in its environment.
SetEnv(value) ==
    /\ pc = "idle"
    /\ env_skip' = value
    /\ UNCHANGED <<stdin, ignore_file, config_file, src_exists, content, src_findings>>
    /\ UNCHANGED <<hookVars, scanVars, parserVars>>
    /\ UNCHANGED <<sessionVars, pathVars>>

\* The host writes this envelope on the standard input of the hook.
Receive(payload) ==
    /\ pc = "idle"
    /\ stdin' = payload
    /\ UNCHANGED <<env_skip, ignore_file, config_file, src_exists, content, src_findings>>
    /\ UNCHANGED <<hookVars, scanVars, parserVars>>
    /\ UNCHANGED <<sessionVars, pathVars>>

NextInvoke ==
    \/ \E value \in EnvSamples : SetEnv(value)
    \/ \E payload \in PayloadSamples : Receive(payload)
    \/ \E k \in 1..Len(ConfigSamples) : WriteConfig(k)
    \/ RunHook
    \/ Forget

SpecInvoke == InitInvoke /\ [][NextInvoke]_vars

\* The environment holds the flag with the value 1, true or yes.
EnvEnables == env_skip \in {"1", "true", "TRUE", "True", "yes", "YES", "Yes"}

\* The command holds the flag, in any letter case and not inside a longer
\* word, followed by "=" (blanks allowed around it, one quote after it) and
\* by a value among vals.
CommandAssigns(vals) ==
    /\ stdin.json = "object" /\ stdin.tool_name = "Bash" /\ stdin.input_is_map
    /\ \E i \in 1..Len(stdin.command) : \E e \in (i + 1)..Len(stdin.command) :
          \E v \in (e + 1)..Len(stdin.command) :
              /\ stdin.command[i] \in {"SKIP_PREDEPLOY_CHECK", "skip_predeploy_check",
                                       "Skip_Predeploy_Check"}
              /\ i = 1 \/ stdin.command[i - 1] = " "
              /\ \A m \in (i + 1)..(e - 1) : stdin.command[m] = " "
              /\ stdin.command[e] = "="
              /\ \A m \in (e + 1)..(v - 1) :
                    \/ stdin.command[m] = " "
                    \/ stdin.command[m] \in {"\"", "'"} /\ m = v - 1
              /\ stdin.command[v] \in vals

EnablingValues == {"1", "true", "TRUE", "True", "yes", "YES", "Yes"}
OtherValues == {"0", "false"}

\* C8: with the flag set to 1, true or yes in the environment, or assigned
\* such a value in the command, the hook exits 0 and run_audit is not entered.
C8_BypassSkipsAudit ==
    (pc = "exited" /\ (EnvEnables \/ CommandAssigns(EnablingValues))) =>
        exit_code = 0 /\ ~ran_audit

\* The command carries the bypass, and without it the deployment is blocked.
C8_Witness ==
    /\ pc = "exited"
    /\ ~EnvEnables
    /\ CommandAssigns(EnablingValues)
    /\ exit_code = 0
    /\ ~ran_audit
    /\ main(env_skip, DeployPayload, ignore_file, config_file, src_exists, content,
            src_findings).exit_code = 2

\* C8 as the claim words it: any assignment of the flag in the command
\* makes the hook exit 0 without an audit.
C8_AnyAssignmentBypasses ==
    (pc = "exited" /\ (EnvEnables \/ CommandAssigns(EnablingValues \cup OtherValues))) =>
        exit_code = 0 /\ ~ran_audit

\* C11: whatever arrives on standard input, and whatever misbehaves inside,
\* the hook ends with exit code 0 or exit code 2, and with no other code.
C11_ExitZeroOrTwo ==
    pc = "exited" => exit_code \in {0, 2}

\* C29: a deployment whose config file parses to a mapping, the empty
\* mapping included, enters run_audit; and when LOOP001 is a blocking rule
\* and the mapping sets no cpu_ms limit, the hook blocks (exit 2) unless a
\* rule raises.
C29_ParsedConfigIsAudited ==
    (/\ pc = "exited"
     /\ env_skip = "" /\ stdin = DeployPayload
     /\ config_file.exists /\ ~config_file.parse.raised
     /\ IsDict(config_file.parse.value)) =>
        /\ ran_audit
        /\ (/\ <<"LOOP001">> \in load_ignore_file(ignore_file).blocking_rules
            /\ check_cpu_limits(config_file.parse.value).issues # <<>>
            /\ exit_code # 1) => exit_code = 2

-----------------------------------------------------------------------------
(* parse_jsonc: the comment-stripping scan                                 *)
(* The text of a .jsonc file is a sequence of characters; a word that no   *)
(* stage looks into (a number, true, a run of letters) is one atom.        *)

Quote == "\""
Backslash == "\\"
Newline == "\n"

\* while i < n and content[i] != "\n": i += 1
RECURSIVE EndOfLine(_, _)
EndOfLine(s, i) ==
    IF i <= Len(s) /\ s[i] # Newline THEN EndOfLine(s, i + 1) ELSE i

\* while i < n - 1: if content[i] == "*" and content[i + 1] == "/": i += 2; break
\*                  i += 1
\* (indices from 1: the loop runs while i < Len(s))
RECURSIVE EndOfBlock(_, _)
EndOfBlock(s, i) ==
    IF i < Len(s)
    THEN IF s[i] = "*" /\ s[i + 1] = "/" THEN i + 2 ELSE EndOfBlock(s, i + 1)
    ELSE i

\* The scan as it would be without the escape flag.
RECURSIVE StripScanNoEscape(_, _, _, _, _)
StripScanNoEscape(s, i, in_string, escape, result) ==
    IF i > Len(s) THEN result
    ELSE IF s[i] = Quote
    THEN StripScanNoEscape(s, i + 1, ~in_string, FALSE, Append(result, s[i]))
    ELSE IF in_string
    THEN StripScanNoEscape(s, i + 1, in_string, FALSE, Append(result, s[i]))
    ELSE IF s[i] = "/" /\ i + 1 <= Len(s) /\ s[i + 1] = "/"
    THEN StripScanNoEscape(s, EndOfLine(s, i), in_string, FALSE, result)
    ELSE IF s[i] = "/" /\ i + 1 <= Len(s) /\ s[i + 1] = "*"
    THEN StripScanNoEscape(s, EndOfBlock(s, i + 2), in_string, FALSE, result)
    ELSE StripScanNoEscape(s, i + 1, in_string, FALSE, Append(result, s[i]))

\* The scan as it would be if the backslash of an escape were not copied.
RECURSIVE StripScanDropsEscape(_, _, _, _, _)
StripScanDropsEscape(s, i, in_string, escape, result) ==
    IF i > Len(s) THEN result
    ELSE IF escape
    THEN StripScanDropsEscape(s, i + 1, in_string, FALSE, Append(result, s[i]))
    ELSE IF s[i] = Backslash /\ in_string
    THEN StripScanDropsEscape(s, i + 1, in_string, TRUE, result)
    ELSE IF s[i] = Quote
    THEN StripScanDropsEscape(s, i + 1, ~in_string, FALSE, Append(result, s[i]))
    ELSE IF in_string
    THEN StripScanDropsEscape(s, i + 1, in_string, FALSE, Append(result, s[i]))
    ELSE IF s[i] = "/" /\ i + 1 <= Len(s) /\ s[i + 1] = "/"
    THEN StripScanDropsEscape(s, EndOfLine(s, i), in_string, FALSE, result)
    ELSE IF s[i] = "/" /\ i + 1 <= Len(s) /\ s[i + 1] = "*"
    THEN StripScanDropsEscape(s, EndOfBlock(s, i + 2), in_string, FALSE, result)
    ELSE StripScanDropsEscape(s, i + 1, in_string, FALSE, Append(result, s[i]))

\* The variables of the while loop of parse_jsonc: the position, the two
\* flags and the characters kept so far.
ScanState(i, in_string, escape, result) ==
    [i |-> i, in_string |-> in_string, escape |-> escape, result |-> result]

\* One turn of the loop.
StripTurn(s, at) ==
    IF at.escape
    THEN ScanState(at.i + 1, at.in_string, FALSE, Append(at.result, s[at.i]))
    ELSE IF s[at.i] = Backslash /\ at.in_string
    THEN ScanState(at.i + 1, at.in_string, TRUE, Append(at.result, s[at.i]))
    ELSE IF s[at.i] = Quote
    THEN ScanState(at.i + 1, ~at.in_string, FALSE, Append(at.result, s[at.i]))
    ELSE IF at.in_string
    THEN ScanState(at.i + 1, at.in_string, FALSE, Append(at.result, s[at.i]))
    ELSE IF s[at.i] = "/" /\ at.i + 1 <= Len(s) /\ s[at.i + 1] = "/"
    THEN ScanState(EndOfLine(s, at.i), at.in_string, FALSE, at.result)
    ELSE IF s[at.i] = "/" /\ at.i + 1 <= Len(s) /\ s[at.i + 1] = "*"
    THEN ScanState(EndOfBlock(s, at.i + 2), at.in_string, FALSE, at.result)
    ELSE ScanState(at.i + 1, at.in_string, FALSE, Append(at.result, s[at.i]))

\* The loop is evaluated a stretch of turns at a time, which keeps the
\* evaluation shallow on long texts; the length of a stretch changes nothing
\* of the result.
StretchLen == 8

\* The turns of the loop until the position reaches stop or the end of s.
RECURSIVE StripStretch(_, _, _)
StripStretch(s, at, stop) ==
    IF at.i > Len(s) \/ at.i >= stop THEN at
    ELSE StripStretch(s, StripTurn(s, at), stop)

RECURSIVE StripLoop(_, _)
StripLoop(s, at) ==
    IF at.i > Len(s) THEN at.result
    ELSE StripLoop(s, StripStretch(s, at, at.i + StretchLen))

\* The while loop of parse_jsonc from position i on, with its two flags and
\* the characters kept so far.
StripScan(s, i, in_string, escape, result) ==
    StripLoop(s, ScanState(i, in_string, escape, result))

\* content = "".join(result)
strip_comments(s) == StripScan(s, 1, FALSE, FALSE, <<>>)

-----------------------------------------------------------------------------
(* parse_jsonc: trailing commas and json.loads                             *)

\* \s* from position i on: the position of the first character that is
\* neither a blank nor a line end.
RECURSIVE PastBlanks(_, _)
PastBlanks(s, i) ==
    IF i <= Len(s) /\ s[i] \in {" ", Newline} THEN PastBlanks(s, i + 1) ELSE i

\* A match of ,\s*([}\]]) starts at position i: a comma, then blanks, then
\* a closing bracket.
TrailingCommaAt(s, i) ==
    /\ s[i] = ","
    /\ PastBlanks(s, i + 1) <= Len(s)
    /\ s[PastBlanks(s, i + 1)] \in {"}", "]"}

\* One re.sub(r",\s*([}\]])", r"\1", content), from position i on: of every
\* match the closing bracket stays, the comma and the blanks go.  Matches
\* never overlap, a match holding one comma, at its start.
CommaPass(s, i) ==
    LET positions == [k \in 1..(Len(s) + 1 - i) |-> k + i - 1]
        kept == SelectSeq(positions, LAMBDA k :
                    ~\E c \in i..k : TrailingCommaAt(s, c) /\ k < PastBlanks(s, c + 1))
    IN  [n \in 1..Len(kept) |-> s[kept[n]]]

CommaPasses == 5

\* for _ in range(5): content = re.sub(...)
RECURSIVE RepeatCommaPass(_, _)
RepeatCommaPass(s, n) ==
    IF n = 0 THEN s ELSE RepeatCommaPass(CommaPass(s, 1), n - 1)

remove_trailing_commas(s) == RepeatCommaPass(s, CommaPasses)

\* json.loads, as a scan of the atoms: a result is the value read and the
\* position after it, or a failure (json.JSONDecodeError).
Read(value, next) == [ok |-> TRUE, value |-> value, next |-> next]
NoRead == [ok |-> FALSE, value |-> PyNone, next |-> 0]

JsonNumbers == [a \in {"0", "1", "2", "42"} |-> CASE a = "0" -> 0 [] a = "1" -> 1
                                                    [] a = "2" -> 2 [] OTHER -> 42]

\* d[key] = node
dict_set(items, key, node) ==
    IF \E i \in 1..Len(items) : items[i].k = key
    THEN [i \in 1..Len(items) |->
            IF items[i].k = key THEN [k |-> key, v |-> node] ELSE items[i]]
    ELSE Append(items, [k |-> key, v |-> node])

\* A string from the character after its opening quote on.
RECURSIVE JsonString(_, _, _)
JsonString(s, i, acc) ==
    IF i > Len(s) THEN NoRead
    ELSE IF s[i] = Quote THEN Read(PyStr(acc), i + 1)
    ELSE IF s[i] = Backslash
    THEN IF i + 1 <= Len(s) /\ s[i + 1] \in {Quote, Backslash, "/"}
         THEN JsonString(s, i + 2, Append(acc, s[i + 1]))
         ELSE NoRead
    ELSE IF s[i] = Newline THEN NoRead
    ELSE JsonString(s, i + 1, Append(acc, s[i]))

RECURSIVE JsonValue(_, _)
RECURSIVE JsonMembers(_, _, _)
RECURSIVE JsonElements(_, _, _)

\* A value starting at position i.
JsonValue(s, i) ==
    IF i > Len(s) THEN NoRead
    ELSE CASE s[i] = Quote -> JsonString(s, i + 1, <<>>)
           [] s[i] = "{" ->
                IF PastBlanks(s, i + 1) <= Len(s) /\ s[PastBlanks(s, i + 1)] = "}"
                THEN Read(EmptyDict, PastBlanks(s, i + 1) + 1)
                ELSE JsonMembers(s, PastBlanks(s, i + 1), <<>>)
           [] s[i] = "[" ->
                IF PastBlanks(s, i + 1) <= Len(s) /\ s[PastBlanks(s, i + 1)] = "]"
                THEN Read(EmptyList, PastBlanks(s, i + 1) + 1)
                ELSE JsonElements(s, PastBlanks(s, i + 1), <<>>)
           [] s[i] = "null" -> Read(PyNone, i + 1)
           [] s[i] = "true" -> Read(PyBool(TRUE), i + 1)
           [] s[i] = "false" -> Read(PyBool(FALSE), i + 1)
           [] s[i] \in DOMAIN JsonNumbers -> Read(PyInt(JsonNumbers[s[i]]), i + 1)
           [] OTHER -> NoRead

\* After a key and its value: the closing brace, or a comma and a member.
MemberEnd(s, e, items) ==
    IF e > Len(s) THEN NoRead
    ELSE IF s[e] = "}" THEN Read(PyDict(items), e + 1)
    ELSE IF s[e] = "," THEN JsonMembers(s, PastBlanks(s, e + 1), items)
    ELSE NoRead

\* After a key: the colon and the value.
MemberValue(s, c, key, items) ==
    IF c > Len(s) \/ s[c] # ":" THEN NoRead
    ELSE \* one read of the value, then what follows it
         LET after(v) == IF ~v.ok THEN NoRead
                         ELSE MemberEnd(s, PastBlanks(s, v.next),
                                        dict_set(items, key, v.value))
         IN  after(JsonValue(s, PastBlanks(s, c + 1)))

\* The members of an object, a key being due at position i.
JsonMembers(s, i, items) ==
    IF i > Len(s) \/ s[i] # Quote THEN NoRead
    ELSE LET after(k) == IF ~k.ok THEN NoRead
                         ELSE MemberValue(s, PastBlanks(s, k.next), k.value.v, items)
         IN  after(JsonString(s, i + 1, <<>>))

\* The elements of an array, a value being due at position i.
JsonElements(s, i, items) ==
    LET after(v) ==
            IF ~v.ok THEN NoRead
            ELSE LET e == PastBlanks(s, v.next)
                 IN  IF e > Len(s) THEN NoRead
                     ELSE IF s[e] = "]" THEN Read(PyList(Append(items, v.value)), e + 1)
                     ELSE IF s[e] = ","
                     THEN JsonElements(s, PastBlanks(s, e + 1), Append(items, v.value))
                     ELSE NoRead
    IN  after(JsonValue(s, i))

\* json.loads(content): the value of the whole text, or an error.
json_loads(s) ==
    LET whole(v) == IF v.ok /\ PastBlanks(s, v.next) > Len(s)
                    THEN Parsed(v.value) ELSE ParseError
    IN  whole(JsonValue(s, PastBlanks(s, 1)))

\* parse_jsonc as it would be without its comma passes.
parse_json_plain(s) == json_loads(strip_comments(s))

parse_jsonc(s) == json_loads(remove_trailing_commas(strip_comments(s)))

-----------------------------------------------------------------------------
(* The parser at work on a .jsonc text typed piece by piece                *)

MaxTextLen == 7

\* What the user types at once: a quote, an escaped quote, an escaped
\* backslash, the comment markers, a line end, an ordinary character.
TextPieces ==
    { <<Quote>>, <<Backslash, Quote>>, <<Backslash, Backslash>>,
      <<"/", "/">>, <<"/", "*">>, <<"*", "/">>, <<Newline>>, <<"a">> }

\* Every variable of the hook at rest.
HookIdle ==
    /\ env_skip = ""
    /\ stdin = DeployPayload
    /\ ignore_file = NoIgnoreFile
    /\ config_file = NoConfigFile
    /\ src_exists = FALSE
    /\ content = <<>>
    /\ src_findings = [cost |-> FALSE]
    /\ pc = "idle"
    /\ exit_code = NoExit
    /\ ran_audit = FALSE
    /\ issues = <<>>
    /\ blocking_rules = {}
    /\ blocking_issues = <<>>
    /\ warning_issues = <<>>
    /\ report = NoReport
    /\ scan_issues = <<>>
    /\ raw_issues = <<>>
    /\ filtered_issues = <<>>

InitStrip == HookIdle /\ ParserIdle /\ SessionIdle /\ PathsIdle

\* The user types a piece at the end of wrangler.jsonc.
TypePiece(piece) ==
    /\ stage = "editing"
    /\ Len(config_text) + Len(piece) <= MaxTextLen
    /\ config_text' = config_text \o piece
    /\ UNCHANGED <<text_stripped, parsed, stage, rule_result>>
    /\ UNCHANGED <<projectVars, hookVars, scanVars>>
    /\ UNCHANGED <<sessionVars, pathVars>>

\* parse_jsonc(content) on the text as it stands.
ParseJsonc ==
    /\ stage = "editing"
    /\ text_stripped' = strip_comments(config_text)
    /\ parsed' = parse_jsonc(config_text)
    /\ stage' = "parsed"
    /\ UNCHANGED <<config_text, rule_result>>
    /\ UNCHANGED <<projectVars, hookVars, scanVars>>
    /\ UNCHANGED <<sessionVars, pathVars>>

\* The results are dropped and the user goes on typing.
TypeOn ==
    /\ stage = "parsed"
    /\ text_stripped' = <<>>
    /\ parsed' = NotParsed
    /\ stage' = "editing"
    /\ UNCHANGED <<config_text, rule_result>>
    /\ UNCHANGED <<projectVars, hookVars, scanVars>>
    /\ UNCHANGED <<sessionVars, pathVars>>

NextStrip ==
    \/ \E piece \in TextPieces : TypePiece(piece)
    \/ ParseJsonc
    \/ TypeOn

SpecStrip == InitStrip /\ [][NextStrip]_vars

\* C16: the comment-stripping stage is idempotent: stripping the output of
\* a strip yields that same output, for every text over quotes, backslashes,
\* slashes, stars, line ends and ordinary characters (well-formed or not).
C16_StripIdempotent ==
    stage = "parsed" => strip_comments(text_stripped) = text_stripped

\* The grammar of comment-bearing text, read off the text itself and not
\* by a scan with flags.
\* The backslashes that stand immediately before position k, after position i.
BackslashRun(s, i, k) ==
    Cardinality({n \in 1..(k - i - 1) : \A m \in (k - n)..(k - 1) : s[m] = Backslash})

\* The quote that closes the string opened at i: the first one that an even
\* number of backslashes precedes; 0 when the string is not closed.
ClosingQuote(s, i) ==
    LET closing == {k \in (i + 1)..Len(s) : s[k] = Quote /\ BackslashRun(s, i, k) % 2 = 0}
    IN  IF closing = {} THEN 0 ELSE MinOf(closing)

\* The star of the marker that closes the block comment opened at i, or 0.
BlockClose(s, i) ==
    LET closing == {k \in (i + 2)..(Len(s) - 1) : s[k] = "*" /\ s[k + 1] = "/"}
    IN  IF closing = {} THEN 0 ELSE MinOf(closing)

\* The line end that closes the line comment opened at i, or the end of text.
LineClose(s, i) == MinOf({k \in i..(Len(s) + 1) : k > Len(s) \/ s[k] = Newline})

StartsLine(s, i) == s[i] = "/" /\ i < Len(s) /\ s[i + 1] = "/"
StartsBlock(s, i) == s[i] = "/" /\ i < Len(s) /\ s[i + 1] = "*"

\* The text from i on with its comments left out; wf tells whether every
\* string and every block comment is closed.
RECURSIVE WithoutComments(_, _)
WithoutComments(s, i) ==
    LET join(prefix, rest) == [wf |-> rest.wf, out |-> prefix \o rest.out]
    IN  IF i > Len(s) THEN [wf |-> TRUE, out |-> <<>>]
        ELSE IF s[i] = Quote
        THEN IF ClosingQuote(s, i) = 0 THEN [wf |-> FALSE, out |-> <<>>]
             ELSE join(SubSeq(s, i, ClosingQuote(s, i)),
                       WithoutComments(s, ClosingQuote(s, i) + 1))
        ELSE IF StartsLine(s, i) THEN WithoutComments(s, LineClose(s, i))
        ELSE IF StartsBlock(s, i)
        THEN IF BlockClose(s, i) = 0 THEN [wf |-> FALSE, out |-> <<>>]
             ELSE WithoutComments(s, BlockClose(s, i) + 2)
        ELSE join(<<s[i]>>, WithoutComments(s, i + 1))

\* The position of the first block comment that is opened outside a string
\* and never closed, or 0.
RECURSIVE OpenBlock(_, _)
OpenBlock(s, i) ==
    IF i > Len(s) THEN 0
    ELSE IF s[i] = Quote
    THEN IF ClosingQuote(s, i) = 0 THEN 0 ELSE OpenBlock(s, ClosingQuote(s, i) + 1)
    ELSE IF StartsLine(s, i) THEN OpenBlock(s, LineClose(s, i))
    ELSE IF StartsBlock(s, i)
    THEN IF BlockClose(s, i) = 0 THEN i ELSE OpenBlock(s, BlockClose(s, i) + 2)
    ELSE OpenBlock(s, i + 1)

WellFormed(s) == WithoutComments(s, 1).wf
HasComment(s) == WithoutComments(s, 1).out # s
HasString(s) == \E i \in 1..Len(s) : s[i] = Quote

\* A well-formed text with a string and a comment, stripped, and the strip
\* of the output computed again.
C16_Witness ==
    /\ stage = "parsed"
    /\ WellFormed(config_text) /\ HasComment(config_text) /\ HasString(config_text)
    /\ text_stripped # config_text
    /\ strip_comments(text_stripped) = text_stripped

\* C17: in a well-formed text every character outside the comments is
\* emitted unchanged and in order, and nothing else is: comment markers
\* inside a string, also after an escaped quote or an escaped backslash,
\* start no comment, and an escaped quote does not end the string.
C17_NonCommentPassThrough ==
    (stage = "parsed" /\ WellFormed(config_text)) =>
        text_stripped = WithoutComments(config_text, 1).out

\* A string that holds an escaped quote and then a line-comment marker:
\* the escaped quote does not close it, the marker starts no comment.
C17_Witness ==
    /\ stage = "parsed"
    /\ config_text = <<Quote, Backslash, Quote, "/", "/", Quote, "a">>
    /\ WellFormed(config_text)
    /\ text_stripped = config_text

\* C18: when a block comment opened outside a string is never closed, the
\* stripped output is the text before its opening marker (itself stripped),
\* and no character of the comment is emitted.
C18_UnterminatedBlockConsumed ==
    (stage = "parsed" /\ OpenBlock(config_text, 1) > 0) =>
        text_stripped = strip_comments(SubSeq(config_text, 1, OpenBlock(config_text, 1) - 1))

-----------------------------------------------------------------------------
(* The parser at work on structured wrangler.jsonc texts                   *)

MaxDepth == 5

\* The brackets opened and not closed, innermost last, read from the left
\* a stretch of the text at a time.  No string of these texts holds a
\* bracket.
OpenersTurn(s, at) ==
    [i |-> at.i + 1,
     open |-> IF s[at.i] \in {"{", "["} THEN Append(at.open, s[at.i])
              ELSE IF s[at.i] \in {"}", "]"} THEN SubSeq(at.open, 1, Len(at.open) - 1)
              ELSE at.open]
RECURSIVE OpenersStretch(_, _, _)
OpenersStretch(s, at, stop) ==
    IF at.i > Len(s) \/ at.i >= stop THEN at
    ELSE OpenersStretch(s, OpenersTurn(s, at), stop)
RECURSIVE OpenersLoop(_, _)
OpenersLoop(s, at) ==
    IF at.i > Len(s) THEN at.open
    ELSE OpenersLoop(s, OpenersStretch(s, at, at.i + StretchLen))
Openers(s) == OpenersLoop(s, [i |-> 1, open |-> <<>>])

ValueDue(s) == IF s = <<>> THEN TRUE ELSE s[Len(s)] \in {"[", ":"}
Innermost(s) == IF Openers(s) = <<>> THEN "" ELSE Openers(s)[Len(Openers(s))]
CloserOf(opener) == IF opener = "{" THEN "}" ELSE "]"

\* What the user writes where a value is due: at the root any scalar, in an
\* array a string or two elements, in an object a string or a value and a
\* second member.
ValuesIn(opener) ==
    CASE opener = "[" -> { <<Quote, "a", Quote>>, <<"1", ",", "2">> }
      [] opener = "{" -> { <<Quote, "a", Quote>>, <<"1", ",", Quote, "b", Quote, ":", "2">> }
      [] OTHER -> { <<Quote, "a", Quote>>, <<"42">>, <<"null">>, <<"true">> }

\* How a bracket is closed: at once or after a trailing comma, the comma
\* of an array being followed by a blank and a line end.
CloseForms(opener) ==
    IF opener = "{" THEN { <<>>, <<",">> } ELSE { <<>>, <<",", " ", Newline>> }

InitJsonc == HookIdle /\ ParserIdle /\ SessionIdle /\ PathsIdle

OpenObject ==
    /\ stage = "editing"
    /\ ValueDue(config_text)
    /\ Len(Openers(config_text)) < MaxDepth
    /\ config_text' = config_text \o <<"{", Quote, "k", Quote, ":">>
    /\ UNCHANGED <<text_stripped, parsed, stage, rule_result>>
    /\ UNCHANGED <<projectVars, hookVars, scanVars>>
    /\ UNCHANGED <<sessionVars, pathVars>>

OpenArray ==
    /\ stage = "editing"
    /\ ValueDue(config_text)
    /\ Len(Openers(config_text)) < MaxDepth
    /\ config_text' = config_text \o <<"[">>
    /\ UNCHANGED <<text_stripped, parsed, stage, rule_result>>
    /\ UNCHANGED <<projectVars, hookVars, scanVars>>
    /\ UNCHANGED <<sessionVars, pathVars>>

PutValue(value) ==
    /\ stage = "editing"
    /\ ValueDue(config_text)
    /\ value \in ValuesIn(Innermost(config_text))
    /\ config_text' = config_text \o value
    /\ UNCHANGED <<text_stripped, parsed, stage, rule_result>>
    /\ UNCHANGED <<projectVars, hookVars, scanVars>>
    /\ UNCHANGED <<sessionVars, pathVars>>

CloseBracket(form) ==
    /\ stage = "editing"
    /\ ~ValueDue(config_text)
    /\ Openers(config_text) # <<>>
    /\ form \in CloseForms(Innermost(config_text))
    /\ config_text' = config_text \o form \o <<CloserOf(Innermost(config_text))>>
    /\ UNCHANGED <<text_stripped, parsed, stage, rule_result>>
    /\ UNCHANGED <<projectVars, hookVars, scanVars>>
    /\ UNCHANGED <<sessionVars, pathVars>>

NextJsonc ==
    \/ OpenObject
    \/ OpenArray
    \/ \E value \in UNION {ValuesIn(o) : o \in {"[", "{", ""}} : PutValue(value)
    \/ \E form \in CloseForms("{") \cup CloseForms("[") : CloseBracket(form)
    \/ ParseJsonc
    \/ TypeOn

SpecJsonc == InitJsonc /\ [][NextJsonc]_vars

\* The text is a whole value: something was written and every bracket closed.
Complete(s) == s # <<>> /\ ~ValueDue(s) /\ Openers(s) = <<>>

\* The deepest nesting of the text, and whether each of its closing brackets
\* follows a trailing comma.
DepthOf(s) ==
    MaxOf({0} \cup {Len(Openers(SubSeq(s, 1, i))) : i \in 1..Len(s)})
AllTrailing(s) ==
    \A i \in 1..Len(s) : s[i] \in {"}", "]"} =>
        \E j \in 1..(i - 1) : s[j] = "," /\ \A m \in (j + 1)..(i - 1) : s[m] \in {" ", Newline}

\* C12: whenever a parser returns a value, the value is a mapping.
C12_RootIsMapping ==
    (stage = "parsed" /\ ~parsed.raised) => IsDict(parsed.value)

\* C19: a text that is valid but for trailing commas before closing
\* brackets, at any depth up to MaxDepth, parses after the comma passes.
C19_TrailingCommasParse ==
    (stage = "parsed" /\ Complete(config_text)) => ~parsed.raised

\* Objects and arrays nested five deep, a trailing comma before every
\* closing bracket: parsed, to an array or an object as the text opens.
C19_Witness ==
    /\ stage = "parsed"
    /\ Complete(config_text)
    /\ DepthOf(config_text) >= 5
    /\ AllTrailing(config_text)
    /\ \E i, j \in 1..Len(config_text) : config_text[i] = "{" /\ config_text[j] = "["
    /\ ~parsed.raised
    /\ parsed.value.t \in {"map", "seq"}

-----------------------------------------------------------------------------
(* The parser at work on a string literal typed character by character     *)

MaxStringLen == 3

\* The characters the user types inside the literal.
LiteralChars == {"a", ",", " ", "}", "]", "/"}

\* How the text opens, up to the opening quote of the literal: as the one
\* element of an array, or as the value of the key k.
LiteralOpenings == { <<"[", Quote>>, <<"{", Quote, "k", Quote, ":", Quote>> }

QuotesIn(s) == {i \in 1..Len(s) : s[i] = Quote}
InLiteral(s) == Cardinality(QuotesIn(s)) \in {1, 3}
LiteralClosed(s) == Cardinality(QuotesIn(s)) \in {2, 4}
\* The characters between the last two quotes of a closed text.
LiteralWritten(s) ==
    LET last == MaxOf(QuotesIn(s))
        first == MaxOf(QuotesIn(s) \ {last})
    IN  SubSeq(s, first + 1, last - 1)

InitLiteral == HookIdle /\ ParserIdle /\ SessionIdle /\ PathsIdle

OpenLiteral(opening) ==
    /\ stage = "editing"
    /\ config_text = <<>>
    /\ config_text' = opening
    /\ UNCHANGED <<text_stripped, parsed, stage, rule_result>>
    /\ UNCHANGED <<projectVars, hookVars, scanVars>>
    /\ UNCHANGED <<sessionVars, pathVars>>

TypeChar(c) ==
    /\ stage = "editing"
    /\ InLiteral(config_text)
    /\ Len(config_text) - MaxOf(QuotesIn(config_text)) < MaxStringLen
    /\ config_text' = Append(config_text, c)
    /\ UNCHANGED <<text_stripped, parsed, stage, rule_result>>
    /\ UNCHANGED <<projectVars, hookVars, scanVars>>
    /\ UNCHANGED <<sessionVars, pathVars>>

\* The closing quote and the closing bracket, at once or after a trailing comma.
CloseLiteral(form) ==
    /\ stage = "editing"
    /\ InLiteral(config_text)
    /\ config_text' = config_text \o <<Quote>> \o form \o <<CloserOf(config_text[1])>>
    /\ UNCHANGED <<text_stripped, parsed, stage, rule_result>>
    /\ UNCHANGED <<projectVars, hookVars, scanVars>>
    /\ UNCHANGED <<sessionVars, pathVars>>

NextLiteral ==
    \/ \E opening \in LiteralOpenings : OpenLiteral(opening)
    \/ \E c \in LiteralChars : TypeChar(c)
    \/ \E form \in { <<>>, <<",">> } : CloseLiteral(form)
    \/ ParseJsonc
    \/ TypeOn

SpecLiteral == InitLiteral /\ [][NextLiteral]_vars

\* The strings of a tree, keys left out, in the order of the text.
RECURSIVE StringsOf(_)
StringsOf(node) ==
    CASE node.t = "str" -> <<node.v>>
      [] node.t = "seq" -> Concat([i \in 1..Len(node.v) |-> StringsOf(node.v[i])])
      [] node.t = "map" -> Concat([i \in 1..Len(node.v) |-> StringsOf(node.v[i].v)])
      [] OTHER -> <<>>

\* C26: a valid text that holds one string literal parses, and the string
\* of the parsed tree is the string written, whatever commas, blanks and
\* closing brackets the literal holds.
C26_LiteralsUntouched ==
    (stage = "parsed" /\ LiteralClosed(config_text)) =>
        /\ ~parsed.raised
        /\ StringsOf(parsed.value) = <<LiteralWritten(config_text)>>

-----------------------------------------------------------------------------
(* parse_toml_simple                                                       *)
(* A line of wrangler.toml is a sequence of atoms: brackets, dots, "=",    *)
(* "#", blanks and quotes are atoms of their own, a run of letters or of   *)
(* digits is one atom.                                                     *)

SingleQuote == "'"
PyFloat(s) == [t |-> "float", v |-> s]

\* s.split(sep)
RECURSIVE Split(_, _)
Split(s, sep) ==
    IF ~Contains(s, sep) THEN <<s>>
    ELSE <<SplitOnce(s, sep)[1]>> \o Split(SplitOnce(s, sep)[2], sep)

\* s.strip(c): every leading and every trailing c removed.
StripChar(s, c) ==
    LET keep == {i \in 1..Len(s) : s[i] # c}
    IN  IF keep = {} THEN <<>> ELSE SubSeq(s, MinOf(keep), MaxOf(keep))

\* Runs of decimal digits and what int() makes of them; the superscript two
\* (one character, written here by its code point) is a digit for
\* str.isdigit() and for nothing else.
DigitRuns == {"0", "1", "2", "5", "12", "007"}
IntOfRun(a) ==
    CASE a = "0" -> 0 [] a = "1" -> 1 [] a = "2" -> 2 [] a = "5" -> 5
      [] a = "12" -> 12 [] OTHER -> 7
SuperscriptTwo == "<U+00B2>"

RECURSIVE TenTo(_)
TenTo(n) == IF n = 0 THEN 1 ELSE 10 * TenTo(n - 1)

\* int(value) for a string of decimal digits
RECURSIVE IntOfDigits(_, _)
IntOfDigits(s, acc) ==
    IF s = <<>> THEN acc
    ELSE IntOfDigits(Tail(s), acc * TenTo(Len(Head(s))) + IntOfRun(Head(s)))

\* \d+ matches the whole of s
AllDigits(s) == s # <<>> /\ \A i \in 1..Len(s) : s[i] \in DigitRuns
\* value.isdigit()
isdigit(s) == s # <<>> /\ \A i \in 1..Len(s) : s[i] \in DigitRuns \cup {SuperscriptTwo}
\* re.match(r'^-?\d+\.\d+$', value) for an unsigned value
IsDecimal(s) ==
    \E d \in 1..Len(s) : /\ s[d] = "."
                         /\ AllDigits(SubSeq(s, 1, d - 1))
                         /\ AllDigits(SubSeq(s, d + 1, Len(s)))
Unsigned(s) == IF s # <<>> /\ s[1] = "-" THEN Tail(s) ELSE s

\* Lines 412-422: the value of a key-value line after the quotes are gone.
Coerce(value) ==
    IF Lower(value) = <<"true">> THEN Parsed(PyBool(TRUE))
    ELSE IF Lower(value) = <<"false">> THEN Parsed(PyBool(FALSE))
    ELSE IF isdigit(value)
    THEN IF AllDigits(value) THEN Parsed(PyInt(IntOfDigits(value, 0)))
         ELSE ParseError                                \* int('\u00b2'): ValueError
    ELSE IF AllDigits(Unsigned(value))
    THEN Parsed(PyInt(0 - IntOfDigits(Unsigned(value), 0)))
    ELSE IF IsDecimal(Unsigned(value)) THEN Parsed(PyFloat(value))
    ELSE Parsed(PyStr(value))

\* value.strip().strip('"').strip("'")
unquote(value) == StripChar(StripChar(Strip(value), Quote), SingleQuote)

\* Where current_section points in the result tree: the keys, and the
\* positions in lists, that lead to it from the root.
KeyStep(key) == [key |-> key, idx |-> 0]
IndexStep(n) == [key |-> <<>>, idx |-> n]

RECURSIVE NodeAt(_, _)
NodeAt(node, path) ==
    IF path = <<>> THEN node
    ELSE IF Head(path).idx > 0 THEN NodeAt(node.v[Head(path).idx], Tail(path))
    ELSE NodeAt(dict_get(node, Head(path).key, PyNone), Tail(path))

\* The tree with the node at path replaced.
RECURSIVE WithNodeAt(_, _, _)
WithNodeAt(node, path, new) ==
    IF path = <<>> THEN new
    ELSE IF Head(path).idx > 0
    THEN PyList([node.v EXCEPT ![Head(path).idx] = WithNodeAt(@, Tail(path), new)])
    ELSE PyDict(dict_set(node.v, Head(path).key,
                         WithNodeAt(dict_get(node, Head(path).key, PyNone), Tail(path), new)))

\* The state of the line loop: whether an exception left it, the result
\* tree, and where current_section points.
TomlState(result, current) == [raised |-> FALSE, result |-> result, current |-> current]
TomlRaised == [raised |-> TRUE, result |-> EmptyDict, current |-> <<>>]

\* for part in parts: if part not in section: section[part] = {}
\*                    section = section[part]
\* The membership test or the assignment raises on anything but a dict.
RECURSIVE Descend(_, _, _)
Descend(result, path, parts) ==
    IF parts = <<>> THEN TomlState(result, path)
    ELSE IF ~IsDict(NodeAt(result, path)) THEN TomlRaised
    ELSE IF HasKey(NodeAt(result, path), Head(parts))
    THEN Descend(result, Append(path, KeyStep(Head(parts))), Tail(parts))
    ELSE Descend(WithNodeAt(result, Append(path, KeyStep(Head(parts))), EmptyDict),
                 Append(path, KeyStep(Head(parts))), Tail(parts))

\* Lines 372-377 and 380-384: the list under array_key of the parent gets a
\* new empty mapping, which becomes current_section.
AppendTable(st, array_key) ==
    IF st.raised THEN TomlRaised
    ELSE IF ~IsDict(NodeAt(st.result, st.current)) THEN TomlRaised
    ELSE LET at == Append(st.current, KeyStep(array_key))
             old == dict_get(NodeAt(st.result, st.current), array_key, EmptyList)
         IN  IF old.t # "seq" THEN TomlRaised                \* .append
             ELSE TomlState(WithNodeAt(st.result, at, PyList(Append(old.v, EmptyDict))),
                            Append(at, IndexStep(Len(old.v) + 1)))

\* A [[name]] header.
ArrayHeader(st, section_name) ==
    LET parts == Split(section_name, ".")
    IN  AppendTable(Descend(st.result, <<>>, SubSeq(parts, 1, Len(parts) - 1)),
                    parts[Len(parts)])

\* A [name] header.
TableHeader(st, section_name) == Descend(st.result, <<>>, Split(section_name, "."))

\* A key = value line: current_section[key] = value.
KeyValue(st, line) ==
    LET key == Strip(SplitOnce(line, "=")[1])
        set(value) ==
            IF value.raised \/ ~IsDict(NodeAt(st.result, st.current)) THEN TomlRaised
            ELSE TomlState(WithNodeAt(st.result, Append(st.current, KeyStep(key)), value.value),
                           st.current)
    IN  set(Coerce(unquote(SplitOnce(line, "=")[2])))

IsArrayHeader(line) ==
    /\ Len(line) >= 4
    /\ line[1] = "[" /\ line[2] = "["
    /\ line[Len(line) - 1] = "]" /\ line[Len(line)] = "]"
IsTableHeader(line) == Len(line) >= 2 /\ line[1] = "[" /\ line[Len(line)] = "]"

\* The body of the line loop for one line.
TomlLine(st, raw) ==
    LET line == Strip(raw)
    IN  IF st.raised THEN st
        ELSE IF line = <<>> \/ line[1] = "#" THEN st
        ELSE IF IsArrayHeader(line)
        THEN ArrayHeader(st, Strip(SubSeq(line, 3, Len(line) - 2)))
        ELSE IF IsTableHeader(line)
        THEN TableHeader(st, Strip(SubSeq(line, 2, Len(line) - 1)))
        ELSE IF Contains(line, "=") THEN KeyValue(st, line)
        ELSE st

RECURSIVE TomlLines(_, _)
TomlLines(st, lines) ==
    IF lines = <<>> THEN st ELSE TomlLines(TomlLine(st, Head(lines)), Tail(lines))

parse_toml_simple(s) ==
    LET done(st) == IF st.raised THEN ParseError ELSE Parsed(st.result)
    IN  done(TomlLines(TomlState(EmptyDict, <<>>), SplitLines(s)))

-----------------------------------------------------------------------------
(* The parser at work on wrangler.toml texts typed line by line            *)

MaxTomlLines == 4

TomlLineSamples ==
    { <<"#", " ", "note">>,
      <<"[", "x", "]">>,
      <<"[", "[", "x", "]", "]">>,
      <<"[", "x", ".", "sub", "]">>,
      <<"[", "[", "x", ".", "sub", "]", "]">>,
      <<"[", "y", "]">>,
      <<"x", " ", "=", " ", "1">>,
      <<"k", " ", "=", " ", "1">>,
      <<"k", " ", "=", " ", "2">> }

InitToml == HookIdle /\ ParserIdle /\ SessionIdle /\ PathsIdle

\* The user adds a line to wrangler.toml.
AddTomlLine(line) ==
    /\ stage = "editing"
    /\ Len(SplitLines(config_text)) < MaxTomlLines
    /\ config_text' = AppendLine(config_text, line)
    /\ UNCHANGED <<text_stripped, parsed, stage, rule_result>>
    /\ UNCHANGED <<projectVars, hookVars, scanVars>>
    /\ UNCHANGED <<sessionVars, pathVars>>

\* parse_toml_simple(content) on the text as it stands.
ParseToml ==
    /\ stage = "editing"
    /\ parsed' = parse_toml_simple(config_text)
    /\ stage' = "parsed"
    /\ UNCHANGED <<config_text, text_stripped, rule_result>>
    /\ UNCHANGED <<projectVars, hookVars, scanVars>>
    /\ UNCHANGED <<sessionVars, pathVars>>

NextToml ==
    \/ \E line \in TomlLineSamples : AddTomlLine(line)
    \/ ParseToml
    \/ TypeOn

SpecToml == InitToml /\ [][NextToml]_vars

\* C13: parse_toml_simple rejects no sequence of comments, headers and
\* key-value lines: it always returns a tree.
C13_TomlNeverRaises ==
    stage = "parsed" => ~parsed.raised

\* The lines of the text that are the header [[x]], in order.
IsXHeader(line) == Strip(line) = <<"[", "[", "x", "]", "]">>
IsHeader(line) == IsArrayHeader(Strip(line)) \/ IsTableHeader(Strip(line))
XHeaders(lines) == {i \in 1..Len(lines) : IsXHeader(lines[i])}
NthOf(S, j) == CHOOSE i \in S : Cardinality({m \in S : m <= i}) = j

\* The key-value lines from line i up to the next header, as a mapping.
RECURSIVE LinesUnder(_, _, _)
LinesUnder(lines, i, acc) ==
    IF i > Len(lines) THEN acc
    ELSE IF IsHeader(lines[i]) THEN acc
    ELSE IF Contains(lines[i], "=") /\ Strip(lines[i])[1] # "#"
    THEN LinesUnder(lines, i + 1,
                    dict_set(acc, Strip(SplitOnce(Strip(lines[i]), "=")[1]),
                             Coerce(unquote(SplitOnce(Strip(lines[i]), "=")[2])).value))
    ELSE LinesUnder(lines, i + 1, acc)

\* Under key x the tree holds one mapping per [[x]] header, in order, each
\* with the key-value lines that follow its header.
ArrayOfTablesKept(lines, tree) ==
    /\ IsDict(tree)
    /\ dict_get(tree, <<"x">>, PyNone).t = "seq"
    /\ LET entries == dict_get(tree, <<"x">>, PyNone).v
       IN  /\ Len(entries) = Cardinality(XHeaders(lines))
           /\ \A j \in 1..Len(entries) :
                 entries[j] = PyDict(LinesUnder(lines, NthOf(XHeaders(lines), j) + 1, <<>>))

\* C14: a text with N headers [[x]] parses to a tree that holds under x a
\* sequence of N mappings in declaration order, each key-value line stored
\* in the mapping opened by the most recent header before it.
C14_ArrayOfTables ==
    (stage = "parsed" /\ XHeaders(SplitLines(config_text)) # {}) =>
        /\ ~parsed.raised
        /\ ArrayOfTablesKept(SplitLines(config_text), parsed.value)

-----------------------------------------------------------------------------
(* The parser at work on one key-value line of wrangler.toml               *)

MaxValuePieces == 5

\* What the user types after "k =".
ValuePieces == {Quote, SingleQuote, "abc", "True", "-", "12", ".", " ", "=", SuperscriptTwo}

KeyAndEquals == <<"k", " ", "=">>

InitTomlValue ==
    /\ HookIdle
    /\ config_text = KeyAndEquals
    /\ text_stripped = <<>>
    /\ parsed = NotParsed
    /\ stage = "editing"
    /\ rule_result = Returns(<<>>)
    /\ SessionIdle
    /\ PathsIdle

TypeValuePiece(piece) ==
    /\ stage = "editing"
    /\ Len(config_text) < Len(KeyAndEquals) + MaxValuePieces
    /\ config_text' = Append(config_text, piece)
    /\ UNCHANGED <<text_stripped, parsed, stage, rule_result>>
    /\ UNCHANGED <<projectVars, hookVars, scanVars>>
    /\ UNCHANGED <<sessionVars, pathVars>>

NextTomlValue ==
    \/ \E piece \in ValuePieces : TypeValuePiece(piece)
    \/ ParseToml
    \/ TypeOn

SpecTomlValue == InitTomlValue /\ [][NextTomlValue]_vars

\* One layer of quotes taken off: at most one quote, of either kind, at
\* each end.
StripOneQuote(s) ==
    LET from == IF s # <<>> /\ s[1] \in {Quote, SingleQuote} THEN 2 ELSE 1
        to == IF Len(s) >= from /\ s[Len(s)] \in {Quote, SingleQuote}
              THEN Len(s) - 1 ELSE Len(s)
    IN  SubSeq(s, from, to)

\* C15: the line is split on its first "=", the value is trimmed, exactly
\* one layer of surrounding quotes is removed, and the rest is coerced
\* (true/false in any case, an optionally signed digit string, a decimal
\* token, else the string as it is): a value in two layers of quotes keeps
\* its inner layer.
C15_OneQuoteLayer ==
    stage = "parsed" =>
        LET expected == Coerce(StripOneQuote(Strip(SplitOnce(config_text, "=")[2])))
        IN  IF expected.raised THEN parsed.raised
            ELSE parsed = Parsed(PyDict(<<[k |-> <<"k">>, v |-> expected.value]>>))

-----------------------------------------------------------------------------
(* check_secrets_in_vars at work on the vars section of a parsed config    *)

MaxVars == 2

\* Keys of the vars section: three that hold a secret-like token, in upper
\* case, in lower case and as a part of the name, and one that holds none.
VarKeys == { <<"API_KEY">>, <<"api_key">>, <<"my_", "Token">>, <<"NAME">> }

\* Values: the empty string, strings of 5, 8 and 20 characters, a
\* placeholder, and a number of 9 digits.
VarValues ==
    << PyStr(<<>>), PyStr(<<"short">>), PyStr(<<"12345678">>),
       PyStr(<<"sk_live_abcdef123456">>), PyStr(<<"${", "API_KEY", "}">>),
       PyInt(123456789) >>

ConfigWithVars(items) ==
    [exists |-> TRUE, name |-> "wrangler.toml",
     parse |-> Parsed(PyDict(<< [k |-> <<"vars">>, v |-> PyDict(items)] >>))]
VarsOf(file) == dict_get(file.parse.value, <<"vars">>, EmptyDict).v

InitSecrets ==
    /\ env_skip = ""
    /\ stdin = DeployPayload
    /\ ignore_file = NoIgnoreFile
    /\ config_file = ConfigWithVars(<<>>)
    /\ src_exists = FALSE
    /\ content = <<>>
    /\ src_findings = [cost |-> FALSE]
    /\ pc = "idle"
    /\ exit_code = NoExit
    /\ ran_audit = FALSE
    /\ issues = <<>>
    /\ blocking_rules = {}
    /\ blocking_issues = <<>>
    /\ warning_issues = <<>>
    /\ report = NoReport
    /\ scan_issues = <<>>
    /\ raw_issues = <<>>
    /\ filtered_issues = <<>>
    /\ ParserIdle
    /\ SessionIdle
    /\ PathsIdle

\* The user adds an entry to the vars section of the config.
AddVar(key, value) ==
    /\ stage = "editing"
    /\ Len(VarsOf(config_file)) < MaxVars
    /\ \A i \in 1..Len(VarsOf(config_file)) : VarsOf(config_file)[i].k # key
    /\ config_file' = ConfigWithVars(Append(VarsOf(config_file), [k |-> key, v |-> value]))
    /\ UNCHANGED <<env_skip, stdin, ignore_file, src_exists, content, src_findings>>
    /\ UNCHANGED <<hookVars, scanVars, parserVars>>
    /\ UNCHANGED <<sessionVars, pathVars>>

\* check_secrets_in_vars(config) on the config as it stands.
CheckSecrets ==
    /\ stage = "editing"
    /\ rule_result' = check_secrets_in_vars(config_file.parse.value)
    /\ stage' = "checked"
    /\ UNCHANGED <<config_text, text_stripped, parsed>>
    /\ UNCHANGED <<projectVars, hookVars, scanVars>>
    /\ UNCHANGED <<sessionVars, pathVars>>

\* The result is dropped and the user goes on editing.
EditVars ==
    /\ stage = "checked"
    /\ rule_result' = Returns(<<>>)
    /\ stage' = "editing"
    /\ UNCHANGED <<config_text, text_stripped, parsed>>
    /\ UNCHANGED <<projectVars, hookVars, scanVars>>
    /\ UNCHANGED <<sessionVars, pathVars>>

NextSecrets ==
    \/ \E key \in VarKeys, n \in 1..Len(VarValues) : AddVar(key, VarValues[n])
    \/ CheckSecrets
    \/ EditVars

SpecSecrets == InitSecrets /\ [][NextSecrets]_vars

\* The claim's three conditions on a value, and its condition on a key.
LooksSecret(value) ==
    /\ Truthy(value)
    /\ StrLen(value) > 8
    /\ ~(IsStr(value) /\ StartsWith(value.v, "${"))
HoldsToken(key) == \E k \in 1..Len(secret_patterns) : KeyMatches(key, secret_patterns[k])

\* C20: a key of vars that holds a secret-like token gets a CRITICAL SEC001
\* issue if and only if its value is non-empty, longer than 8 characters
\* and no ${...} placeholder; a key that holds no token gets nothing.
C20_SecretRule ==
    stage = "checked" =>
        /\ ~rule_result.raised
        /\ \A i \in 1..Len(rule_result.issues) :
              /\ rule_result.issues[i].id = <<"SEC001">>
              /\ rule_result.issues[i].severity = "CRITICAL"
        /\ \A i \in 1..Len(VarsOf(config_file)) :
              (\E j \in 1..Len(rule_result.issues) :
                  rule_result.issues[j] = SecretIssue(VarsOf(config_file)[i].k))
              <=> (HoldsToken(VarsOf(config_file)[i].k) /\ LooksSecret(VarsOf(config_file)[i].v))

-----------------------------------------------------------------------------
(* check_queue_dlq_comprehensive at work on the consumers of a parsed      *)
(* config                                                                  *)

MaxConsumers == 2

\* Entries of queues.consumers: a bare consumer, a fully configured one, two
\* whose names look like dead-letter queues, one without a name, two with a
\* retry count at and under the threshold, entries whose queue name or
\* retry count has another type, and an entry that is no mapping.
ConsumerSamples ==
    << PyDict(<< KV("queue", PyStr(<<"orders">>)) >>),
       PyDict(<< KV("queue", PyStr(<<"orders">>)),
                 KV("dead_letter_queue", PyStr(<<"orders", "-dlq">>)),
                 KV("max_retries", PyInt(2)), KV("max_concurrency", PyInt(5)) >>),
       PyDict(<< KV("queue", PyStr(<<"orders", "-dlq">>)), KV("max_retries", PyInt(3)) >>),
       PyDict(<< KV("queue", PyStr(<<"my_", "Dead_Letter", "_q">>)),
                 KV("max_retries", PyInt(1)) >>),
       PyDict(<< KV("max_retries", PyInt(5)) >>),
       PyDict(<< KV("queue", PyStr(<<"events">>)), KV("max_retries", PyInt(0)) >>),
       PyDict(<< KV("queue", PyInt(7)), KV("max_retries", PyInt(5)) >>),
       PyDict(<< KV("queue", PyStr(<<"events">>)), KV("max_retries", PyStr(<<"5">>)) >>),
       PyStr(<<"orders">>) >>

ConfigWithConsumers(items) ==
    [exists |-> TRUE, name |-> "wrangler.jsonc",
     parse |-> Parsed(PyDict(<< KV("queues", PyDict(<< KV("consumers", PyList(items)) >>)) >>))]
ConsumersOf(file) ==
    dict_get(dict_get(file.parse.value, <<"queues">>, EmptyDict), <<"consumers">>, EmptyList).v

InitQueues ==
    /\ env_skip = ""
    /\ stdin = DeployPayload
    /\ ignore_file = NoIgnoreFile
    /\ config_file = ConfigWithConsumers(<<>>)
    /\ src_exists = FALSE
    /\ content = <<>>
    /\ src_findings = [cost |-> FALSE]
    /\ pc = "idle"
    /\ exit_code = NoExit
    /\ ran_audit = FALSE
    /\ issues = <<>>
    /\ blocking_rules = {}
    /\ blocking_issues = <<>>
    /\ warning_issues = <<>>
    /\ report = NoReport
    /\ scan_issues = <<>>
    /\ raw_issues = <<>>
    /\ filtered_issues = <<>>
    /\ ParserIdle
    /\ SessionIdle
    /\ PathsIdle

\* The user adds an entry to queues.consumers.
AddConsumer(consumer) ==
    /\ stage = "editing"
    /\ Len(ConsumersOf(config_file)) < MaxConsumers
    /\ config_file' = ConfigWithConsumers(Append(ConsumersOf(config_file), consumer))
    /\ UNCHANGED <<env_skip, stdin, ignore_file, src_exists, content, src_findings>>
    /\ UNCHANGED <<hookVars, scanVars, parserVars>>
    /\ UNCHANGED <<sessionVars, pathVars>>

\* check_queue_dlq_comprehensive(config) on the config as it stands.
CheckQueues ==
    /\ stage = "editing"
    /\ rule_result' = check_queue_dlq_comprehensive(config_file.parse.value)
    /\ stage' = "checked"
    /\ UNCHANGED <<config_text, text_stripped, parsed>>
    /\ UNCHANGED <<projectVars, hookVars, scanVars>>
    /\ UNCHANGED <<sessionVars, pathVars>>

NextQueues ==
    \/ \E n \in 1..Len(ConsumerSamples) : AddConsumer(ConsumerSamples[n])
    \/ CheckQueues
    \/ EditVars

SpecQueues == InitQueues /\ [][NextQueues]_vars

\* The consumers the config declares: the mappings of the list, each with
\* its position in the list (from 0).
DeclaredConsumers ==
    {i \in 1..Len(ConsumersOf(config_file)) : IsDict(ConsumersOf(config_file)[i])}

\* The name a consumer goes by: its queue, or consumer[i] when it has none.
NameOfConsumer(i) ==
    IF HasKey(ConsumersOf(config_file)[i], <<"queue">>)
    THEN dict_get(ConsumersOf(config_file)[i], <<"queue">>, PyNone)
    ELSE PyStr(<<"consumer[", ToString(i - 1), "]">>)

\* The name is a text that ends in -dlq or holds dead_letter in any case.
NamedLikeDlq(name) ==
    /\ IsStr(name)
    /\ \/ name.v # <<>> /\ name.v[Len(name.v)] = "-dlq"
       \/ \E m \in 1..Len(name.v) : name.v[m] \in {"dead_letter", "DEAD_LETTER", "Dead_Letter"}

\* The consumer lacks a dead-letter target and is no dead-letter queue itself.
LacksDeadLetter(i) ==
    /\ ~HasKey(ConsumersOf(config_file)[i], <<"dead_letter_queue">>)
    /\ ~NamedLikeDlq(NameOfConsumer(i))

\* The issues of rule id that name the queue.
IssuesNaming(id, name) ==
    {k \in 1..Len(rule_result.issues) :
        /\ rule_result.issues[k].id = <<id>>
        /\ QuotedName(rule_result.issues[k].message, "Queue '") = StrOf(name)}

\* C22: every declared consumer without a dead_letter_queue key whose name
\* does not look like a dead-letter queue yields exactly one HIGH RES001
\* issue naming its queue, and the other consumers yield none: for each name
\* there are as many RES001 issues as consumers of that name that lack a
\* dead-letter target.
C22_DeadLetterRule ==
    stage = "checked" =>
        /\ ~rule_result.raised
        /\ \A k \in 1..Len(rule_result.issues) :
              rule_result.issues[k].id = <<"RES001">> =>
                  /\ rule_result.issues[k].severity = "HIGH"
                  /\ \E i \in DeclaredConsumers :
                        k \in IssuesNaming("RES001", NameOfConsumer(i))
        /\ \A i \in DeclaredConsumers :
              Cardinality(IssuesNaming("RES001", NameOfConsumer(i)))
                  = Cardinality({j \in DeclaredConsumers :
                        NameOfConsumer(j) = NameOfConsumer(i) /\ LacksDeadLetter(j)})

\* The retry count the consumer is evaluated with, and whether it is a
\* number over the threshold.
RetriesOf(i) == dict_get(ConsumersOf(config_file)[i], <<"max_retries">>, PyInt(3))
OverThreshold(i) == RetriesOf(i).t = "int" /\ RetriesOf(i).v > 2

\* C30: a consumer gets a MEDIUM COST001 issue exactly when its max_retries
\* is greater than 2, a consumer without max_retries counting as 3: for each
\* name there are as many COST001 issues as consumers of that name over the
\* threshold.
C30_RetryRule ==
    stage = "checked" =>
        /\ ~rule_result.raised
        /\ \A k \in 1..Len(rule_result.issues) :
              rule_result.issues[k].id = <<"COST001">> =>
                  rule_result.issues[k].severity = "MEDIUM"
        /\ \A i \in DeclaredConsumers :
              Cardinality(IssuesNaming("COST001", NameOfConsumer(i)))
                  = Cardinality({j \in DeclaredConsumers :
                        NameOfConsumer(j) = NameOfConsumer(i) /\ OverThreshold(j)})

-----------------------------------------------------------------------------
(* The session-start hook (src/hooks/session-start.py)                     *)

\* "|".join(content_parts): one part filename:st_mtime for each file of
\* files_to_hash that exists, from file k on.
RECURSIVE FingerprintParts(_, _)
FingerprintParts(times, k) ==
    IF k > Len(SessionFiles) THEN <<>>
    ELSE IF times[SessionFiles[k]] = 0 THEN FingerprintParts(times, k + 1)
    ELSE LET rest == FingerprintParts(times, k + 1)
         IN  <<SessionFiles[k], ":", ToString(times[SessionFiles[k]])>>
             \o (IF rest = <<>> THEN <<>> ELSE <<"|">> \o rest)

\* hashlib.md5(text.encode()).hexdigest()[:12]: a text of hexadecimal digits
\* that stands for the text hashed, two distinct texts of the model having
\* distinct digests.
Digest(text) == <<"md5[:12] of ">> \o text

get_project_fingerprint(times) ==
    IF FingerprintParts(times, 1) = <<>> THEN <<>>
    ELSE Digest(FingerprintParts(times, 1))

is_cached(cache, fingerprint) ==
    IF ~cache.exists THEN FALSE ELSE Strip(cache.text) = fingerprint

\* cache_path.write_text(fingerprint); the file system of the model raises
\* no OSError.
update_cache(cache, fingerprint) == [exists |-> TRUE, text |-> fingerprint]

\* detect_cf_project: whether a wrangler config exists, and the first one.
\* The binding flags, read from the text of the config, are left out: they
\* change the words of the announcement, not whether there is one.
detect_cf_project(times) ==
    LET configs == {k \in 1..3 : times[SessionFiles[k]] > 0}
    IN  IF configs = {} THEN [is_cf_project |-> FALSE, config_file |-> NoFile]
        ELSE [is_cf_project |-> TRUE, config_file |-> SessionFiles[MinOf(configs)]]

format_capabilities_message(detection) ==
    IF ~detection.is_cf_project THEN <<>>
    ELSE <<"**Cloudflare Engineer plugin active**", "\n",
           "   Run /cf-audit for architecture review and cost analysis">>

\* main of session-start.py: the exit status, whether detect_cf_project ran,
\* whether the announcement was printed, and the cache file afterwards.
session_main(times, cache) ==
    LET fingerprint == get_project_fingerprint(times)
        detection == detect_cf_project(times)
    IN  IF fingerprint = <<>>
        THEN [exit_code |-> 0, detected |-> FALSE, announced |-> FALSE, cache |-> cache]
        ELSE IF is_cached(cache, fingerprint)
        THEN [exit_code |-> 0, detected |-> FALSE, announced |-> FALSE, cache |-> cache]
        ELSE IF ~detection.is_cf_project
        THEN [exit_code |-> 0, detected |-> TRUE, announced |-> FALSE, cache |-> cache]
        ELSE [exit_code |-> 0, detected |-> TRUE,
              announced |-> format_capabilities_message(detection) # <<>>,
              cache |-> update_cache(cache, fingerprint)]

\* The files the user of the model creates, edits and removes, and the
\* modification times they get.
TouchedFiles == {"wrangler.toml", "package.json"}
Mtimes == {1, 2}

InitSession ==
    /\ HookIdle
    /\ ParserIdle
    /\ mtimes = [f \in {SessionFiles[k] : k \in 1..Len(SessionFiles)} |-> 0]
    /\ cache_file = [exists |-> FALSE, text |-> <<>>]
    /\ session = NoSession
    /\ history = NoHistory
    /\ PathsIdle

\* The user saves or removes the file (t = 0), or its modification time is
\* set back: the fingerprint changes.
Touch(file, t) ==
    /\ t # mtimes[file]
    /\ mtimes' = [mtimes EXCEPT ![file] = t]
    /\ session' = NoSession
    /\ history' = [history EXCEPT !.analysed = FALSE]
    /\ UNCHANGED cache_file
    /\ UNCHANGED <<projectVars, hookVars, scanVars, parserVars, pathVars>>

\* One invocation of the session hook, from its start to its exit.
RunSession ==
    /\ \E r \in {session_main(mtimes, cache_file)} :
          /\ session' =
                 [exit_code |-> r.exit_code, detected |-> r.detected,
                  announced |-> r.announced,
                  redetected |-> history.analysed /\ r.detected,
                  repeated |-> r.announced
                      /\ get_project_fingerprint(mtimes) \in history.announced_for]
          /\ history' =
                 [analysed |-> history.analysed \/ r.detected,
                  announced_for |->
                      IF r.announced
                      THEN history.announced_for \cup {get_project_fingerprint(mtimes)}
                      ELSE history.announced_for]
          /\ cache_file' = r.cache
    /\ UNCHANGED mtimes
    /\ UNCHANGED <<projectVars, hookVars, scanVars, parserVars, pathVars>>

NextSession ==
    \/ \E file \in TouchedFiles, t \in Mtimes \cup {0} : Touch(file, t)
    \/ RunSession

SpecSession == InitSession /\ [][NextSession]_vars

\* C23: once an invocation has run the project detection, a later
\* invocation with the same fingerprint exits before the detection and
\* prints nothing (redetected tells that the last invocation ran the
\* detection after an earlier one had, the files unchanged in between); and
\* no fingerprint gets the announcement twice (repeated tells that the last
\* invocation printed it for a fingerprint that already had it).
C23_CachingAvoidsRepeats ==
    session.exit_code # NoExit =>
        /\ session.exit_code = 0
        /\ ~session.redetected
        /\ ~session.repeated

-----------------------------------------------------------------------------
(* The scanners at work on two copies of a project                         *)
(* A path is the sequence of its names: <<"home", "src", "a.ts">> is       *)
(* /home/src/a.ts.                                                         *)

\* File names \.test\.[jt]sx?$, \.spec\.[jt]sx?$, _test\.[jt]sx?$,
\* \.stories\.[jt]sx?$ and \.e2e\.[jt]sx?$ match, among the names of the model.
TestFileNames == {"a.test.ts", "a.spec.ts"}
\* Directory names /tests?/, /fixtures?/ and /mocks?/ match.
TestDirNames == {"test", "tests", "fixture", "fixtures", "mock", "mocks"}

\* is_test_file(str(ts_file)): the patterns are searched in the whole path,
\* lower-cased.  A pattern that ends with / matches a directory of the path,
\* a pattern that ends with $ matches its file name.
is_test_file(file_path) ==
    LET file_path_lower == Lower(file_path)
        dirs == {file_path_lower[i] : i \in 1..(Len(file_path) - 1)}
    IN  \/ file_path_lower[Len(file_path)] \in TestFileNames
        \/ "__tests__" \in dirs
        \/ dirs \cap TestDirNames # {}

\* The text of the file: a loop that never ends.
UnboundedLoop == <<"while", " ", "(true)", " ", "{}">>

\* scan_source_for_loop_patterns on a project of directory dir whose src
\* holds the one file dir/file: ts_file is Path(working_dir) / "src" / ...,
\* and a test file is skipped.  check_d1_query_patterns skips the same files
\* and reports nothing for this text.
scan_project(dir, file) ==
    IF is_test_file(dir \o file) THEN <<>>
    ELSE Deduplicate(ScanFile(UnboundedLoop), {})

MaxRootDepth == 2

\* Names of the directories above a project.
DirNames == {"home", "tests", "Mocks", "fixture", "latest"}
RECURSIVE PathsOfDepth(_)
PathsOfDepth(n) ==
    IF n = 0 THEN {<<>>}
    ELSE {Append(d, name) : d \in PathsOfDepth(n - 1), name \in DirNames}
Roots == UNION {PathsOfDepth(n) : n \in 1..MaxRootDepth}

\* Paths of the source file from the project directory.
FileSamples == { <<"src", "a.ts">>, <<"src", "tests", "a.ts">>, <<"src", "a.test.ts">> }

InitPaths == HookIdle /\ ParserIdle /\ SessionIdle /\ PathsIdle

\* The project is checked out somewhere else.
MoveProject(dir) ==
    /\ dir # working_dir
    /\ working_dir' = dir
    /\ scanned' = NotScanned
    /\ UNCHANGED <<other_dir, ts_file>>
    /\ UNCHANGED <<projectVars, hookVars, scanVars, parserVars, sessionVars>>

MoveCopy(dir) ==
    /\ dir # other_dir
    /\ other_dir' = dir
    /\ scanned' = NotScanned
    /\ UNCHANGED <<working_dir, ts_file>>
    /\ UNCHANGED <<projectVars, hookVars, scanVars, parserVars, sessionVars>>

\* The file is renamed, in both copies.
RenameFile(file) ==
    /\ file # ts_file
    /\ ts_file' = file
    /\ scanned' = NotScanned
    /\ UNCHANGED <<working_dir, other_dir>>
    /\ UNCHANGED <<projectVars, hookVars, scanVars, parserVars, sessionVars>>

\* The scanner runs in each copy.
ScanCopies ==
    /\ ~scanned.done
    /\ scanned' = [done |-> TRUE,
                   here |-> scan_project(working_dir, ts_file),
                   there |-> scan_project(other_dir, ts_file)]
    /\ UNCHANGED <<working_dir, other_dir, ts_file>>
    /\ UNCHANGED <<projectVars, hookVars, scanVars, parserVars, sessionVars>>

NextPaths ==
    \/ \E dir \in Roots : MoveProject(dir)
    \/ \E dir \in Roots : MoveCopy(dir)
    \/ \E file \in FileSamples : RenameFile(file)
    \/ ScanCopies

SpecPaths == InitPaths /\ [][NextPaths]_vars

\* C27: two copies of a project that hold the same file at the same path
\* from the project directory get the same findings, whatever the names of
\* the directories above them.
C27_ExemptionByRelativePath ==
    scanned.done => scanned.here = scanned.there

-----------------------------------------------------------------------------
(* check_r2_infrequent_access at work on the buckets of a parsed config    *)
(* and the text of src/a.ts                                                *)

MaxBuckets == 2
MaxReadLines == 2

\* Entries of r2_buckets: two names that suggest infrequent access, one of
\* them in mixed case, and one that does not.
BucketSamples ==
    << PyDict(<< KV("binding", PyStr(<<"LOGS">>)), KV("bucket_name", PyStr(<<"logs-ia">>)) >>),
       PyDict(<< KV("binding", PyStr(<<"COLD">>)), KV("bucket_name", PyStr(<<"Cold_IA">>)) >>),
       PyDict(<< KV("binding", PyStr(<<"MEDIA">>)), KV("bucket_name", PyStr(<<"media">>)) >>) >>

\* Lines of src/a.ts: a read, a read with a blank before its arguments, a
\* suppressed read, a read suppressed for another rule, two caching
\* signals, a line that holds none of these.
ReadLineSamples ==
    { <<"b", ".get", "(k)">>,
      <<"c", ".get", " ", "(k)">>,
      <<"b", ".get", "(k)", " ", "//", " ", "@pre-deploy-ok", " ", "BUDGET009">>,
      <<"b", ".get", "(k)", " ", "//", " ", "@pre-deploy-ok", " ", "LOOP007">>,
      <<"caches.default">>,
      <<"cache.Match">>,
      <<"x">> }

ConfigWithBuckets(items) ==
    [exists |-> TRUE, name |-> "wrangler.jsonc",
     parse |-> Parsed(PyDict(<< KV("r2_buckets", PyList(items)) >>))]
BucketsOf(file) == dict_get(file.parse.value, <<"r2_buckets">>, EmptyList).v

InitBuckets ==
    /\ env_skip = ""
    /\ stdin = DeployPayload
    /\ ignore_file = NoIgnoreFile
    /\ config_file = ConfigWithBuckets(<<>>)
    /\ src_exists = TRUE
    /\ content = <<>>
    /\ src_findings = [cost |-> FALSE]
    /\ pc = "idle"
    /\ exit_code = NoExit
    /\ ran_audit = FALSE
    /\ issues = <<>>
    /\ blocking_rules = {}
    /\ blocking_issues = <<>>
    /\ warning_issues = <<>>
    /\ report = NoReport
    /\ scan_issues = <<>>
    /\ raw_issues = <<>>
    /\ filtered_issues = <<>>
    /\ ParserIdle
    /\ SessionIdle
    /\ PathsIdle

\* The user adds an entry to r2_buckets.
AddBucket(bucket) ==
    /\ stage = "editing"
    /\ Len(BucketsOf(config_file)) < MaxBuckets
    /\ config_file' = ConfigWithBuckets(Append(BucketsOf(config_file), bucket))
    /\ UNCHANGED <<env_skip, stdin, ignore_file, src_exists, content, src_findings>>
    /\ UNCHANGED <<hookVars, scanVars, parserVars>>
    /\ UNCHANGED <<sessionVars, pathVars>>

\* The user adds a line to src/a.ts.
AddRead(line) ==
    /\ stage = "editing"
    /\ Len(SplitLines(content)) < MaxReadLines \/ content = <<>>
    /\ content' = AppendLine(content, line)
    /\ UNCHANGED <<env_skip, stdin, ignore_file, config_file, src_exists, src_findings>>
    /\ UNCHANGED <<hookVars, scanVars, parserVars>>
    /\ UNCHANGED <<sessionVars, pathVars>>

\* check_r2_infrequent_access(working_dir, config) on the project as it stands.
CheckBuckets ==
    /\ stage = "editing"
    /\ rule_result' = check_r2_infrequent_access(config_file.parse.value, src_exists, content)
    /\ stage' = "checked"
    /\ UNCHANGED <<config_text, text_stripped, parsed>>
    /\ UNCHANGED <<projectVars, hookVars, scanVars>>
    /\ UNCHANGED <<sessionVars, pathVars>>

NextBuckets ==
    \/ \E n \in 1..Len(BucketSamples) : AddBucket(BucketSamples[n])
    \/ \E line \in ReadLineSamples : AddRead(line)
    \/ CheckBuckets
    \/ EditVars

SpecBuckets == InitBuckets /\ [][NextBuckets]_vars

\* The names of the declared buckets, in lower case as the messages hold them.
DeclaredBuckets ==
    {Lower(dict_get(BucketsOf(config_file)[i], <<"bucket_name">>, PyStr(<<>>)).v) :
        i \in 1..Len(BucketsOf(config_file))}
IssuesForBucket(name) ==
    {k \in 1..Len(rule_result.issues) :
        /\ rule_result.issues[k].id = <<"BUDGET009">>
        /\ rule_result.issues[k].message = Budget009(name).message}

\* C28: when the source holds an unsuppressed read and no caching signal,
\* the result holds exactly one BUDGET009 issue for each declared bucket
\* whose name suggests infrequent access and none for the other buckets.
C28_OneIssuePerSuspectBucket ==
    (stage = "checked" /\ UnsuppressedReads(content) # <<>> /\ ~HasCaching(content)) =>
        /\ ~rule_result.raised
        /\ \A name \in DeclaredBuckets :
               Cardinality(IssuesForBucket(name)) = IF NameSuggestsIa(name) THEN 1 ELSE 0
        /\ Len(rule_result.issues) = Cardinality({name \in DeclaredBuckets : NameSuggestsIa(name)})

=============================================================================
